---- MODULE Spec2Model ----
(***************************************************************************)
(* Model of the geometry-learning application: the shape classes and       *)
(* their constraint solvers (shapes-2d.js), the engine (geometry-engine.js)*)
(* the auxiliary line manager (auxiliary.js) and the application glue      *)
(* (app.js).                                                               *)
(*                                                                         *)
(* Numbers.  A coordinate is an integer number of 1/Scale pixel.  Sums,    *)
(* differences and halvings are exact as long as at most MaxEdits          *)
(* constrained drags are applied to a shape (each drag halves once, and    *)
(* so does the centring on the canvas);                                    *)
(* square roots, trigonometric values and divisions by other numbers are   *)
(* rounded to the nearest 1/Scale pixel, as a coarse image of the rounding *)
(* of IEEE doubles.  NaN is a distinguished coordinate value.              *)
(***************************************************************************)
EXTENDS Integers, Sequences, FiniteSets, TLC

\* ------------------------------------------------------------------ bounds
MaxEdits    == 2     \* edits applied to one shape
MaxCounter  == 2     \* shapes constructed in one session
MaxLines    == 1     \* auxiliary lines kept by the manager
MaxFileLen  == 2     \* entries of a loaded file
CanvasW     == 500   \* CSS width of the canvas, pixels
CanvasH     == 400   \* CSS height of the canvas, pixels

\* one halving for each edit, and one for the centre of the canvas
Scale == 2 ^ (MaxEdits + 1)
Px(n) == n * Scale

\* ------------------------------------------------------------- arithmetic
NaN == 0 - 1000000000

Abs(a) == IF a < 0 THEN 0 - a ELSE a
Max2(a, b) == IF a > b THEN a ELSE b
Min2(a, b) == IF a < b THEN a ELSE b

\* nearest integer to a / b, b > 0 (Math.round: halves go up)
RoundDiv(a, b) == (2 * a + b) \div (2 * b)

RECURSIVE SqrtSearch(_, _, _)
SqrtSearch(n, lo, hi) ==
    IF hi - lo <= 1 THEN lo
    ELSE LET mid == (lo + hi) \div 2
         IN  IF mid * mid <= n THEN SqrtSearch(n, mid, hi)
                               ELSE SqrtSearch(n, lo, mid)

\* Math.sqrt, rounded to the nearest integer
Sqrt(n) ==
    LET f == SqrtSearch(n, 0, 46340)
    IN  IF n - f * f > f THEN f + 1 ELSE f

\* cos and sin of an angle in degrees, times 10000
CosSin(deg) ==
    LET d == deg % 360
    IN  CASE d = 0   -> <<10000, 0>>
          [] d = 15  -> <<9659, 2588>>
          [] d = 30  -> <<8660, 5000>>
          [] d = 45  -> <<7071, 7071>>
          [] d = 54  -> <<5878, 8090>>
          [] d = 60  -> <<5000, 8660>>
          [] d = 72  -> <<3090, 9511>>
          [] d = 90  -> <<0, 10000>>
          [] d = 120 -> <<0 - 5000, 8660>>
          [] d = 126 -> <<0 - 5878, 8090>>
          [] d = 135 -> <<0 - 7071, 7071>>
          [] d = 144 -> <<0 - 8090, 5878>>
          [] d = 150 -> <<0 - 8660, 5000>>
          [] d = 180 -> <<0 - 10000, 0>>
          [] d = 198 -> <<0 - 9511, 0 - 3090>>
          [] d = 210 -> <<0 - 8660, 0 - 5000>>
          [] d = 216 -> <<0 - 8090, 0 - 5878>>
          [] d = 225 -> <<0 - 7071, 0 - 7071>>
          [] d = 240 -> <<0 - 5000, 0 - 8660>>
          [] d = 270 -> <<0, 0 - 10000>>
          [] d = 288 -> <<3090, 0 - 9511>>
          [] d = 300 -> <<5000, 0 - 8660>>
          [] d = 315 -> <<7071, 0 - 7071>>
          [] d = 330 -> <<8660, 0 - 5000>>
          [] d = 342 -> <<9511, 0 - 3090>>
          [] d = 345 -> <<9659, 0 - 2588>>

\* ---------------------------------------------------------- Point, Vector
Point(x, y) == [x |-> x, y |-> y]

\* an absent (null / undefined) point array
NoPoints == [i \in {} |-> Point(0, 0)]

IsNaNPoint(p) == p.x = NaN \/ p.y = NaN

midpoint(p1, p2) == Point((p1.x + p2.x) \div 2, (p1.y + p2.y) \div 2)

fromPoints(p1, p2) == Point(p2.x - p1.x, p2.y - p1.y)

dot(v, w) == v.x * w.x + v.y * w.y

\* |v|^2 ; Vector.length is Sqrt(Len2(v))
Len2(v) == v.x * v.x + v.y * v.y

length(v) == Sqrt(Len2(v))

distanceTo(p, q) == length(fromPoints(p, q))

\* GeometryUtils.regularPolygonPoints, startAngle = -90 degrees
regularPolygonPoints(center, radius, sides) ==
    [i \in 0 .. sides - 1 |->
        LET cs == CosSin(270 + (360 * i) \div sides)
        IN  Point(center.x + RoundDiv(radius * cs[1], 10000),
                  center.y + RoundDiv(radius * cs[2], 10000))]

\* ------------------------------------------------------------------ shapes
\* One record for every Shape subclass.  subKind is triangleType, quadType,
\* lineType or circleType; radius is Circle.radius; Circle.center is the
\* same Point object as points[0].
NewShape(id, type, subKind, points, radius, sides, isRegular) ==
    [id |-> id, type |-> type, subKind |-> subKind, points |-> points,
     radius |-> radius, sides |-> sides, isRegular |-> isRegular,
     selected |-> FALSE]

NumPoints(s) == Cardinality(DOMAIN s.points)

Point2D(id, x, y) ==
    NewShape(id, "point", "point", (0 :> Point(x, y)), 0, 0, FALSE)

Line2D(id, p1, p2, lineType) ==
    NewShape(id, "line", lineType, (0 :> p1) @@ (1 :> p2), 0, 0, FALSE)

\* Triangle.constructor: points === null gives the default (a regular
\* triangle), whatever triangleType is
Triangle(id, points, triangleType) ==
    NewShape(id, "triangle", triangleType,
             IF Cardinality(DOMAIN points) = 3
             THEN points
             ELSE regularPolygonPoints(Point(Px(250), Px(200)), Px(100), 3),
             0, 0, FALSE)

_createDefaultPoints(type, cx, cy, size) ==
    LET P(dx, dy) == Point(cx + dx, cy + dy)
        T(a, b, c, d) == (0 :> a) @@ (1 :> b) @@ (2 :> c) @@ (3 :> d)
        s7 == (size * 7) \div 10
        s13 == (size * 13) \div 10
    IN  CASE type = "square" ->
               T(P(size, 0 - size), P(size, size), P(0 - size, size), P(0 - size, 0 - size))
          [] type = "rectangle" ->
               T(P(size, 0 - s7), P(size, s7), P(0 - size, s7), P(0 - size, 0 - s7))
          [] type = "rhombus" ->
               T(P(0, 0 - size), P(s13, 0), P(0, size), P(0 - s13, 0))
          [] type = "parallelogram" ->
               T(P(Px(50), 0 - Px(80)), P(Px(130), Px(60)),
                 P(0 - Px(50), Px(80)), P(0 - Px(130), 0 - Px(60)))
          [] type = "trapezoid" ->
               T(P(Px(60), 0 - Px(80)), P(Px(140), Px(80)),
                 P(0 - Px(140), Px(80)), P(0 - Px(60), 0 - Px(80)))
          [] type = "kite" ->
               T(P(0, 0 - Px(120)), P(Px(80), 0), P(0, Px(100)), P(0 - Px(80), 0))
          [] OTHER ->
               T(P(Px(70), 0 - Px(100)), P(Px(120), Px(70)),
                 P(0 - Px(20), Px(120)), P(0 - Px(100), 0 - Px(30)))

Quadrilateral(id, points, quadType) ==
    NewShape(id, "quadrilateral", quadType,
             IF Cardinality(DOMAIN points) = 4
             THEN points
             ELSE _createDefaultPoints(quadType, Px(250), Px(200), Px(100)),
             0, 0, FALSE)

\* Circle.constructor: the control point is always put at angle 0
Circle(id, center, radius, circleType) ==
    NewShape(id, "circle", circleType,
             (0 :> center) @@
             (1 :> Point(IF radius = NaN THEN NaN ELSE center.x + radius, center.y)),
             radius, 0, FALSE)

\* Polygon.constructor: an array of >= 3 points, or a centre for a regular one
Polygon(id, points, center, sides, isRegular) ==
    IF Cardinality(DOMAIN points) >= 3
    THEN NewShape(id, "polygon", "polygon", points, 0,
                  Cardinality(DOMAIN points), isRegular)
    ELSE NewShape(id, "polygon", "polygon",
                  regularPolygonPoints(center, Px(100), sides), 0, sides, TRUE)

\* the type tags of the sidebar (app.js SHAPE_CATEGORIES) and of createShape2D
Tags ==
    {"point", "segment", "ray", "straightLine",
     "triangle-any", "triangle-isosceles", "triangle-equilateral", "triangle-right",
     "quadrilateral-any", "parallelogram", "rectangle", "square", "rhombus",
     "trapezoid", "kite", "circle", "sector", "arc", "pentagon", "hexagon"}

\* tags of the form 'polygon-N', N a number or not
PolygonTags ==
    {"polygon-0", "polygon-1", "polygon-2", "polygon-3", "polygon-4", "polygon-5",
     "polygon-6", "polygon-8", "polygon-x"}

\* parseInt(type.split('-')[1]); NaN when the part is no number
TagNumber(type) ==
    CASE type = "polygon-0" -> 0
      [] type = "polygon-1" -> 1
      [] type = "polygon-2" -> 2
      [] type = "polygon-3" -> 3
      [] type = "polygon-4" -> 4
      [] type = "polygon-5" -> 5
      [] type = "polygon-6" -> 6
      [] type = "polygon-8" -> 8
      [] OTHER -> NaN

\* createShape2D(type) with no options; id is the value ++shapeIdCounter gave
createShape2D(type, id) ==
    LET P1 == Point(Px(150), Px(200))
        P2 == Point(Px(350), Px(200))
        C  == Point(Px(250), Px(200))
    IN  CASE type = "point" -> Point2D(id, Px(250), Px(200))
          [] type \in {"line", "segment"} -> Line2D(id, P1, P2, "segment")
          [] type = "ray" -> Line2D(id, P1, P2, "ray")
          [] type = "straightLine" -> Line2D(id, P1, P2, "line")
          [] type \in {"triangle", "triangle-any"} -> Triangle(id, NoPoints, "any")
          [] type = "triangle-isosceles" -> Triangle(id, NoPoints, "isosceles")
          [] type = "triangle-equilateral" -> Triangle(id, NoPoints, "equilateral")
          [] type = "triangle-right" -> Triangle(id, NoPoints, "right")
          [] type \in {"quadrilateral", "quadrilateral-any"} ->
               Quadrilateral(id, NoPoints, "any")
          [] type \in {"parallelogram", "rectangle", "square", "rhombus",
                       "trapezoid", "kite"} -> Quadrilateral(id, NoPoints, type)
          [] type \in {"circle", "sector", "arc"} -> Circle(id, C, Px(80), type)
          [] type = "pentagon" -> Polygon(id, NoPoints, C, 5, TRUE)
          [] type = "hexagon" -> Polygon(id, NoPoints, C, 6, TRUE)
          [] type \in PolygonTags ->
               LET n == TagNumber(type)
                   sides == IF n = NaN \/ n = 0 THEN 5 ELSE n
               IN  Polygon(id, NoPoints, C, sides, TRUE)

\* ------------------------------------------------------------ serialization
\* A JSON object: keys is the set of keys present; an absent key keeps a
\* dummy value that is never read.
JSONKeys == {"id", "type", "points", "x", "y", "triangleType", "quadType",
             "lineType", "circleType", "center", "radius", "sides", "isRegular"}

BlankJSON ==
    [keys |-> {}, id |-> 0, type |-> "", points |-> NoPoints, x |-> 0, y |-> 0,
     triangleType |-> "", quadType |-> "", lineType |-> "", circleType |-> "",
     center |-> Point(0, 0), radius |-> 0, sides |-> 0, isRegular |-> FALSE]

\* Shape.toJSON (style, info, visible, draggable left out)
Shape_toJSON(s) ==
    [BlankJSON EXCEPT !.keys = {"id", "type", "points"},
                      !.id = s.id, !.type = s.type, !.points = s.points]

\* toJSON as dispatched on the class: only Point2D, Circle and Polygon
\* override Shape.toJSON
toJSON(s) ==
    LET base == Shape_toJSON(s)
    IN  CASE s.type = "point" ->
               [base EXCEPT !.keys = @ \cup {"x", "y"},
                            !.x = s.points[0].x, !.y = s.points[0].y]
          [] s.type = "circle" ->
               [base EXCEPT !.keys = @ \cup {"center", "radius", "circleType"},
                            !.center = s.points[0], !.radius = s.radius,
                            !.circleType = s.subKind]
          [] s.type = "polygon" ->
               [base EXCEPT !.keys = @ \cup {"sides", "isRegular"},
                            !.sides = s.sides, !.isRegular = s.isRegular]
          [] OTHER -> base

Has(data, key) == key \in data.keys

\* data.k || dflt for a string-valued key
OrDefault(data, key, value, dflt) ==
    IF Has(data, key) /\ value # "" THEN value ELSE dflt

\* the id a restored shape gets: data.id (0 stands for undefined)
RestoredId(data) == IF Has(data, "id") THEN data.id ELSE 0

Point2D_fromJSON(data) ==
    Point2D(RestoredId(data),
            IF Has(data, "x") THEN data.x ELSE 0,
            IF Has(data, "y") THEN data.y ELSE 0)

Line2D_fromJSON(data) ==
    Line2D(RestoredId(data), data.points[0], data.points[1],
           OrDefault(data, "lineType", data.lineType, "segment"))

Triangle_fromJSON(data) ==
    Triangle(RestoredId(data), data.points,
             OrDefault(data, "triangleType", data.triangleType, "any"))

Quadrilateral_fromJSON(data) ==
    Quadrilateral(RestoredId(data), data.points,
                  OrDefault(data, "quadType", data.quadType, "any"))

Circle_fromJSON(data) ==
    Circle(RestoredId(data), data.center,
           IF Has(data, "radius") THEN data.radius ELSE NaN,
           OrDefault(data, "circleType", data.circleType, "circle"))

Polygon_fromJSON(data) ==
    Polygon(RestoredId(data), data.points, Point(Px(250), Px(200)),
            IF Has(data, "sides") THEN data.sides ELSE 5,
            Has(data, "isRegular") /\ data.isRegular)

\* does the factory throw on this entry (a read of a property of undefined)
Throws(data) ==
    \/ data.type \in {"triangle", "quadrilateral", "polygon"} /\ ~Has(data, "points")
    \/ data.type = "line" /\ (~Has(data, "points") \/ Cardinality(DOMAIN data.points) < 2)
    \/ data.type = "circle" /\ ~Has(data, "center")

\* shapeFromJSON: a shape, or null for an unknown type
ReturnsNull(data) ==
    data.type \notin {"point", "line", "triangle", "quadrilateral", "circle", "polygon"}

shapeFromJSON(data) ==
    CASE data.type = "point" -> Point2D_fromJSON(data)
      [] data.type = "line" -> Line2D_fromJSON(data)
      [] data.type = "triangle" -> Triangle_fromJSON(data)
      [] data.type = "quadrilateral" -> Quadrilateral_fromJSON(data)
      [] data.type = "circle" -> Circle_fromJSON(data)
      [] data.type = "polygon" -> Polygon_fromJSON(data)

\* ------------------------------------------------------ constraint solvers
HasNaN(s) == \E i \in DOMAIN s.points : IsNaNPoint(s.points[i])

\* (d / dist) * len in real arithmetic: 0 / 0 is NaN
UnitTimes(d, dist, len) ==
    IF dist = 0 THEN NaN ELSE RoundDiv(d * len, dist)

\* Vector.normalize() followed by a product: a zero vector stays zero
NormTimes(d, dist, len) ==
    IF dist = 0 THEN 0 ELSE RoundDiv(d * len, dist)

\* a solver that leaves the two other vertices where they are
_applyEquilateralConstraint_draggedOnly(pts, idx) ==
    pts

\* the three vertices are put on the circle about center through the
\* dragged vertex, 120 degrees apart; center is two thirds of the way from
\* the dragged vertex to the middle of the opposite side
_applyEquilateralConstraint(pts, idx) ==
    LET draggedPoint == pts[idx]
        oppositeMid == midpoint(pts[(idx + 1) % 3], pts[(idx + 2) % 3])
        center == Point(draggedPoint.x + RoundDiv(2 * (oppositeMid.x - draggedPoint.x), 3),
                        draggedPoint.y + RoundDiv(2 * (oppositeMid.y - draggedPoint.y), 3))
        v == fromPoints(center, draggedPoint)
        At(k) == LET cs == CosSin(120 * k)
                 IN  Point(center.x + RoundDiv(v.x * cs[1] - v.y * cs[2], 10000),
                           center.y + RoundDiv(v.x * cs[2] + v.y * cs[1], 10000))
    IN  IF Len2(fromPoints(draggedPoint, oppositeMid)) < Px(20) * Px(20) THEN pts
        ELSE [i \in 0 .. 2 |-> At((i - idx + 3) % 3)]

\* the parts in a thousand a unit vector is kept to
Milli == 1000

_applyIsoscelesConstraint(pts, idx) ==
    IF idx = 0
    THEN LET midBase == midpoint(pts[1], pts[2])
             axisLen == length(fromPoints(midBase, pts[0]))
             distAB == distanceTo(pts[0], pts[1])
             distAC == distanceTo(pts[0], pts[2])
             \* dir.x * avgDist, avgDist = (distAB + distAC) / 2
             Along(i, d, len) ==
                 pts[0] [d] + (IF len = 0 THEN 0
                               ELSE RoundDiv((pts[i] [d] - pts[0] [d]) * (distAB + distAC),
                                             2 * len))
         IN  IF axisLen < Px(10) THEN pts
             ELSE [pts EXCEPT ![1] = Point(Along(1, "x", distAB), Along(1, "y", distAB)),
                              ![2] = Point(Along(2, "x", distAC), Along(2, "y", distAC))]
    ELSE LET other == IF idx = 1 THEN 2 ELSE 1
             apex == pts[0]
             draggedPoint == pts[idx]
             currentMid == midpoint(pts[1], pts[2])
             toMid == fromPoints(apex, currentMid)
             dragDir == fromPoints(apex, draggedPoint)
             axisDir == IF length(toMid) < Px(1)
                        THEN Point(0 - dragDir.y, dragDir.x) ELSE toMid
             axisLen == length(axisDir)
             axisUnitX == RoundDiv(axisDir.x * Milli, axisLen)
             axisUnitY == RoundDiv(axisDir.y * Milli, axisLen)
             toPoint == dragDir
             projLength == RoundDiv(toPoint.x * axisUnitX + toPoint.y * axisUnitY, Milli)
             perpLength == RoundDiv(toPoint.y * axisUnitX - toPoint.x * axisUnitY, Milli)
         IN  IF axisLen = 0 THEN pts
             ELSE [pts EXCEPT ![other] =
                      Point(apex.x + RoundDiv(projLength * axisUnitX + perpLength * axisUnitY, Milli),
                            apex.y + RoundDiv(projLength * axisUnitY - perpLength * axisUnitX, Milli))]

_applyRightConstraint(pts, idx) ==
    IF idx = 0
    THEN LET v1 == fromPoints(pts[0], pts[1])
             v2 == fromPoints(pts[0], pts[2])
             perpendicular == Point(0 - v1.y, v1.x)
             len2 == length(v2)
             len1 == length(perpendicular)
         IN  [pts EXCEPT ![2] = Point(pts[0].x + NormTimes(perpendicular.x, len1, len2),
                                      pts[0].y + NormTimes(perpendicular.y, len1, len2))]
    ELSE pts

_applyParallelogramConstraint(pts, idx) ==
    LET opposite == (idx + 2) % 4
        prev == (idx + 3) % 4
        next == (idx + 1) % 4
        center == midpoint(pts[idx], pts[opposite])
    IN  [pts EXCEPT ![prev] = Point(2 * center.x - pts[next].x,
                                    2 * center.y - pts[next].y)]

_applyRectangleConstraint(pts, idx) ==
    LET opposite == (idx + 2) % 4
        prev == (idx + 3) % 4
        next == (idx + 1) % 4
        center == midpoint(pts[idx], pts[opposite])
        dx == pts[idx].x - center.x
        dy == pts[idx].y - center.y
    IN  [pts EXCEPT ![opposite] = Point(center.x - dx, center.y - dy),
                    ![next] = Point(center.x - dy, center.y + dx),
                    ![prev] = Point(center.x + dy, center.y - dx)]

\* _applySquareConstraint moving the opposite corner only
_applySquareConstraint_oppositeOnly(pts, idx) ==
    _applyParallelogramConstraint(pts, idx)

_applySquareConstraint(pts, idx) ==
    LET opposite == (idx + 2) % 4
        prev == (idx + 3) % 4
        next == (idx + 1) % 4
        center == midpoint(pts[idx], pts[opposite])
        dx == pts[idx].x - center.x
        dy == pts[idx].y - center.y
        dist == Sqrt(dx * dx + dy * dy)
        ndxdist == UnitTimes(dx, dist, dist)
        ndydist == UnitTimes(dy, dist, dist)
    IN  IF dist = 0
        THEN [pts EXCEPT ![opposite] = Point(NaN, NaN),
                         ![next] = Point(NaN, NaN),
                         ![prev] = Point(NaN, NaN)]
        ELSE [pts EXCEPT ![opposite] = Point(center.x - ndxdist, center.y - ndydist),
                         ![next] = Point(center.x - ndydist, center.y + ndxdist),
                         ![prev] = Point(center.x + ndydist, center.y - ndxdist)]

\* _applyTrapezoidConstraint giving edge 0-1 the length of edge 3-2
_applyTrapezoidConstraint_congruent(pts, idx) ==
    IF idx >= 2 /\ pts[2] # pts[3]
    THEN LET abMid == midpoint(pts[0], pts[1])
             hx == RoundDiv(pts[2].x - pts[3].x, 2)
             hy == RoundDiv(pts[2].y - pts[3].y, 2)
         IN  [pts EXCEPT ![0] = Point(abMid.x - hx, abMid.y - hy),
                         ![1] = Point(abMid.x + hx, abMid.y + hy)]
    ELSE pts

_applyTrapezoidConstraint(pts, idx) ==
    IF idx >= 2
    THEN LET dcVector == Point(pts[2].x - pts[3].x, pts[2].y - pts[3].y)
             dcLen2 == dcVector.x * dcVector.x + dcVector.y * dcVector.y
             \* dcLen in sixteenths of a grid step, for short edges
             dcLen == IF dcLen2 < 8000000 THEN Sqrt(256 * dcLen2) ELSE 16 * Sqrt(dcLen2)
             abLen == distanceTo(pts[0], pts[1])
             abMid == midpoint(pts[0], pts[1])
             hx == RoundDiv(dcVector.x * abLen * 8, dcLen)
             hy == RoundDiv(dcVector.y * abLen * 8, dcLen)
         IN  IF dcLen > 0
             THEN [pts EXCEPT ![0] = Point(abMid.x - hx, abMid.y - hy),
                              ![1] = Point(abMid.x + hx, abMid.y + hy)]
             ELSE pts
    ELSE pts

_applyRhombusConstraint(pts, idx) ==
    LET opposite == (idx + 2) % 4
        prev == (idx + 3) % 4
        next == (idx + 1) % 4
        center == midpoint(pts[idx], pts[opposite])
        dx == pts[idx].x - center.x
        dy == pts[idx].y - center.y
        otherDist == distanceTo(pts[next], center)
        perpDx == 0 - dy
        perpDy == dx
        perpLen == Sqrt(perpDx * perpDx + perpDy * perpDy)
        moved == [pts EXCEPT ![opposite] = Point(center.x - dx, center.y - dy)]
    IN  IF perpLen > 0
        THEN [moved EXCEPT
                ![next] = Point(center.x + RoundDiv(perpDx * otherDist, perpLen),
                                center.y + RoundDiv(perpDy * otherDist, perpLen)),
                ![prev] = Point(center.x - RoundDiv(perpDx * otherDist, perpLen),
                                center.y - RoundDiv(perpDy * otherDist, perpLen))]
        ELSE moved

_applyKiteConstraint(pts, idx) ==
    IF idx \in {0, 2}
    THEN LET dist1 == distanceTo(pts[idx], pts[1])
             dist3 == distanceTo(pts[idx], pts[3])
             \* dir.x * avgDist, avgDist = (dist1 + dist3) / 2
             Along(i, d, len) ==
                 pts[idx] [d] + (IF len = 0 THEN 0
                                 ELSE RoundDiv((pts[i] [d] - pts[idx] [d]) * (dist1 + dist3),
                                               2 * len))
         IN  [pts EXCEPT ![1] = Point(Along(1, "x", dist1), Along(1, "y", dist1)),
                         ![3] = Point(Along(3, "x", dist3), Along(3, "y", dist3))]
    ELSE LET other == IF idx = 1 THEN 3 ELSE 1
             acMid == midpoint(pts[0], pts[2])
             acDir == fromPoints(pts[0], pts[2])
             acLen == length(acDir)
             perpDirX == RoundDiv((0 - acDir.y) * Milli, acLen)
             perpDirY == RoundDiv(acDir.x * Milli, acLen)
             toPointX == pts[idx].x - acMid.x
             toPointY == pts[idx].y - acMid.y
             projOnPerp == RoundDiv(toPointX * perpDirX + toPointY * perpDirY, Milli)
         IN  IF acLen > 0
             THEN [pts EXCEPT ![other] =
                      Point(pts[idx].x - RoundDiv(2 * projOnPerp * perpDirX, Milli),
                            pts[idx].y - RoundDiv(2 * projOnPerp * perpDirY, Milli))]
             ELSE pts

\* Shape.getCenter (the centroid); Circle.getCenter is points[0]
getCenter(s) ==
    IF s.type = "circle" THEN s.points[0]
    ELSE LET n == NumPoints(s)
             RECURSIVE SumX(_), SumY(_)
             SumX(i) == IF i < 0 THEN 0 ELSE s.points[i].x + SumX(i - 1)
             SumY(i) == IF i < 0 THEN 0 ELSE s.points[i].y + SumY(i - 1)
         IN  IF n = 0 THEN Point(0, 0)
             ELSE Point(RoundDiv(SumX(n - 1), n), RoundDiv(SumY(n - 1), n))

\* Polygon.applyConstraints of a regular polygon regenerating the vertices
\* from the direction of vertex 0
_applyRegularConstraint_fromVertex0(s, draggedIndex) ==
    LET center == getCenter(s)
        v == fromPoints(center, s.points[0])
        At(i) == LET cs == CosSin((360 * i) \div s.sides)
                 IN  Point(center.x + RoundDiv(v.x * cs[1] - v.y * cs[2], 10000),
                           center.y + RoundDiv(v.x * cs[2] + v.y * cs[1], 10000))
    IN  [i \in 0 .. s.sides - 1 |-> At(i)]

\* Polygon.applyConstraints of a regular polygon: vertex i is the dragged
\* vertex turned about the centroid by (i - draggedIndex) * 360 / sides
_applyRegularConstraint(s, draggedIndex) ==
    LET center == getCenter(s)
        v == fromPoints(center, s.points[draggedIndex])
        At(i) == LET cs == CosSin((360 * ((i - draggedIndex + s.sides) % s.sides)) \div s.sides)
                 IN  Point(center.x + RoundDiv(v.x * cs[1] - v.y * cs[2], 10000),
                           center.y + RoundDiv(v.x * cs[2] + v.y * cs[1], 10000))
    IN  [i \in 0 .. s.sides - 1 |-> At(i)]

\* the sub-kinds whose solver is modelled
Solved(s) ==
    \/ s.type \in {"point", "line", "circle"}
    \/ s.type = "triangle" /\ s.subKind \in {"any", "isosceles", "right", "equilateral"}
    \/ s.type = "quadrilateral"
         /\ s.subKind \in {"any", "parallelogram", "rectangle", "square", "rhombus",
                            "trapezoid", "kite"}
    \/ s.type = "polygon"

\* applyConstraints, dispatched on the class and on its sub-kind
applyConstraints(s, draggedIndex) ==
    CASE s.type = "triangle" /\ s.subKind = "equilateral" ->
           [s EXCEPT !.points = _applyEquilateralConstraint(s.points, draggedIndex)]
      [] s.type = "triangle" /\ s.subKind = "isosceles" ->
           [s EXCEPT !.points = _applyIsoscelesConstraint(s.points, draggedIndex)]
      [] s.type = "triangle" /\ s.subKind = "right" ->
           [s EXCEPT !.points = _applyRightConstraint(s.points, draggedIndex)]
      [] s.type = "quadrilateral" /\ s.subKind = "parallelogram" ->
           [s EXCEPT !.points = _applyParallelogramConstraint(s.points, draggedIndex)]
      [] s.type = "quadrilateral" /\ s.subKind = "rectangle" ->
           [s EXCEPT !.points = _applyRectangleConstraint(s.points, draggedIndex)]
      [] s.type = "quadrilateral" /\ s.subKind = "square" ->
           [s EXCEPT !.points = _applySquareConstraint(s.points, draggedIndex)]
      [] s.type = "quadrilateral" /\ s.subKind = "trapezoid" ->
           [s EXCEPT !.points = _applyTrapezoidConstraint(s.points, draggedIndex)]
      [] s.type = "quadrilateral" /\ s.subKind = "rhombus" ->
           [s EXCEPT !.points = _applyRhombusConstraint(s.points, draggedIndex)]
      [] s.type = "quadrilateral" /\ s.subKind = "kite" ->
           [s EXCEPT !.points = _applyKiteConstraint(s.points, draggedIndex)]
      [] s.type = "polygon" /\ s.isRegular ->
           [s EXCEPT !.points = _applyRegularConstraint(s, draggedIndex)]
      [] OTHER -> s

\* --------------------------------------------------- rigid transformations
\* Shape.rotate(angle) about getCenter(); the angle is given in degrees
rotate(s, deg) ==
    LET c == getCenter(s)
        cs == CosSin(deg)
    IN  [s EXCEPT !.points =
            [i \in DOMAIN s.points |->
                LET dx == s.points[i].x - c.x
                    dy == s.points[i].y - c.y
                IN  Point(c.x + RoundDiv(dx * cs[1] - dy * cs[2], 10000),
                          c.y + RoundDiv(dx * cs[2] + dy * cs[1], 10000))]]

\* Shape.translate(dx, dy)
translate(s, dx, dy) ==
    [s EXCEPT !.points =
        [i \in DOMAIN s.points |->
            Point(IF s.points[i].x = NaN THEN NaN ELSE s.points[i].x + dx,
                  IF s.points[i].y = NaN THEN NaN ELSE s.points[i].y + dy)]]

\* Shape.scale(factor) about getCenter(); factor = tenths / 10
scale(s, tenths) ==
    LET c == getCenter(s)
    IN  [s EXCEPT !.points =
            [i \in DOMAIN s.points |->
                Point(c.x + RoundDiv((s.points[i].x - c.x) * tenths, 10),
                      c.y + RoundDiv((s.points[i].y - c.y) * tenths, 10))]]

\* GeometryApp.centerShape: move the centroid to the middle of the canvas
centerShape(s) ==
    LET c == getCenter(s)
    IN  translate(s, (CanvasW * Scale) \div 2 - c.x, (CanvasH * Scale) \div 2 - c.y)

\* ------------------------------------------------------------------- state
VARIABLES
    heap,               \* the live Shape objects, by construction number
    shapeIdCounter,     \* geometry-engine.js: let shapeIdCounter
    shapes,             \* engine.shapes: the Map's values in insertion order
    selectedShape,      \* engine.selectedShape (0 is null)
    draggingPointIndex, \* engine.draggingPointIndex
    isRotating,         \* engine.isRotating
    interactionEnabled, \* engine.interactionEnabled
    showOptions,        \* engine.showOptions
    currentShape,       \* app.currentShape (0 is null)
    activeTool,         \* app.activeTool ("" is null)
    measure,            \* app.tools.measure, the MeasureTool
    isActive,           \* auxiliaryManager.isActive
    currentMode,        \* auxiliaryManager.currentMode ("" is null)
    selectedElements,   \* auxiliaryManager.selectedElements
    auxiliaryLines,     \* auxiliaryManager.auxiliaryLines
    lastOp,             \* the handler that ran last, its argument and result
    restored,           \* the shape the last shapeFromJSON(toJSON()) returned
    queried,            \* the last getEndpoints() call: its line and its result
    isMovingShape,      \* app.isMovingShape
    lastMousePos,       \* app.lastMousePos (NoPos is null)
    animation,          \* tools.animation: isPlaying, the frame closure's captures
    autoSaveTimer,      \* is a timeout of _scheduleAutoSave pending
    storage,            \* localStorage[STORAGE_KEY] (NoSave is absent)
    edits               \* edits applied to the shapes since the last load

vars == <<heap, shapeIdCounter, shapes, selectedShape, draggingPointIndex,
          isRotating, interactionEnabled, showOptions, currentShape, activeTool,
          measure, isActive, currentMode, selectedElements, auxiliaryLines, lastOp,
          restored, queried, isMovingShape, lastMousePos, animation,
          autoSaveTimer, storage, edits>>

engineVars == <<shapes, selectedShape, draggingPointIndex, isRotating,
                interactionEnabled, showOptions>>
managerVars == <<isActive, currentMode, selectedElements, auxiliaryLines>>
probeVars == <<restored, queried>>
appVars == <<isMovingShape, lastMousePos, animation>>
saveVars == <<autoSaveTimer, storage>>

NoPos == [x |-> NaN, y |-> NaN]

\* MeasureTool.result when nothing has been measured (null)
NoValue == 0 - 1

\* the MeasureTool as constructed
NewMeasureTool ==
    [isActive |-> FALSE, measureType |-> "distance", points |-> <<>>, result |-> NoValue]

NoAnimation == [isPlaying |-> FALSE, shape |-> 0, startAngles |-> <<>>, center |-> NoPos]

NoSave == [present |-> FALSE, heap |-> <<>>, shapes |-> <<>>, auxiliaryLines |-> <<>>]

Range(f) == {f[i] : i \in DOMAIN f}

Op(op, arg, ret) == [op |-> op, arg |-> arg, ret |-> ret]

NoShape == NewShape(0, "", "", NoPoints, 0, 0, FALSE)

DefaultShowOptions ==
    [angles |-> TRUE, sides |-> TRUE, diagonals |-> FALSE, grid |-> TRUE]

\* the objects still referenced, out of heap h
Collect(h, shs, sel, cur, els, lines) ==
    LET live == Range(shs) \cup {sel, cur}
                  \cup {els[i].shape : i \in DOMAIN els}
                  \cup {lines[i].shape : i \in DOMAIN lines}
    IN  [ser \in (DOMAIN h) \cap live |-> h[ser]]

\* ------------------------------------------------------------------ engine
\* Map.set(shape.id, shape): a key already present keeps its place
MapSet(h, shs, ser) ==
    IF \E k \in DOMAIN shs : h[shs[k]].id = h[ser].id
    THEN [k \in DOMAIN shs |-> IF h[shs[k]].id = h[ser].id THEN ser ELSE shs[k]]
    ELSE Append(shs, ser)

\* GeometryEngine.selectShape on heap h: the new heap
selectShape(h, oldSel, ser) ==
    LET h1 == IF oldSel # 0 /\ oldSel \in DOMAIN h
              THEN [h EXCEPT ![oldSel].selected = FALSE] ELSE h
    IN  IF ser # 0 THEN [h1 EXCEPT ![ser].selected = TRUE] ELSE h1

\* the loop of GeometryEngine.load over data.shapes; e.threw stops it
RECURSIVE loadShapes(_, _, _)
loadShapes(e, entries, i) ==
    IF i > Len(entries) THEN e
    ELSE LET data == entries[i]
         IN  IF Throws(data) THEN [e EXCEPT !.threw = TRUE]
             ELSE IF ReturnsNull(data) THEN loadShapes(e, entries, i + 1)
             ELSE LET ser == e.counter + 1
                      h == e.heap @@ (ser :> shapeFromJSON(data))
                  IN  loadShapes([e EXCEPT !.counter = ser, !.heap = h,
                                           !.shapes = MapSet(h, e.shapes, ser)],
                                 entries, i + 1)

\* GeometryEngine.load(data, shapeFromJSON) from engine state e
load(e, data) ==
    LET e1 == [e EXCEPT !.showOptions =
                            IF data.hasShowOptions THEN data.showOptions ELSE @,
                        !.shapes = <<>>,
                        !.selectedShape = 0]
    IN  IF data.hasShapes THEN loadShapes(e1, data.shapes, 1) ELSE e1

EngineState ==
    [heap |-> heap, counter |-> shapeIdCounter, shapes |-> shapes,
     selectedShape |-> selectedShape, showOptions |-> showOptions,
     threw |-> FALSE]

\* ------------------------------------------------- AuxiliaryLineManager
AuxKinds == {"connecting", "median", "altitude", "perpendicular-bisector",
             "angle-bisector", "parallel", "perpendicular", "midline", "extension"}

supportedTypes(type) ==
    CASE type = "line" -> {"perpendicular-bisector", "extension"}
      [] type \in {"triangle", "quadrilateral"} -> AuxKinds
      [] type = "polygon" -> AuxKinds \ {"median", "altitude"}
      [] OTHER -> {}

selectionRequirements(mode) ==
    CASE mode = "connecting" -> [count |-> 2, types |-> <<"vertex", "vertex">>]
      [] mode \in {"median", "altitude", "angle-bisector"} ->
           [count |-> 1, types |-> <<"vertex">>]
      [] mode \in {"perpendicular-bisector", "extension"} ->
           [count |-> 1, types |-> <<"edge">>]
      [] mode \in {"parallel", "perpendicular"} ->
           [count |-> 2, types |-> <<"vertex", "edge">>]
      [] mode = "midline" -> [count |-> 2, types |-> <<"edge", "edge">>]

getAvailableTypes(shape) == supportedTypes(shape.type)

hasValidShape(h, shs, mode) ==
    \E k \in DOMAIN shs : mode \in getAvailableTypes(h[shs[k]])

\* activate(mode) without the test for a shape that supports the mode
activate_unguarded(m, h, shs, mode) ==
    [m EXCEPT !.isActive = TRUE, !.currentMode = mode,
              !.selectedElements = <<>>, !.ret = "true"]

\* activate(mode): the manager's fields afterwards and the value returned
activate(m, h, shs, mode) ==
    IF ~hasValidShape(h, shs, mode)
    THEN [m EXCEPT !.ret = "false"]
    ELSE [m EXCEPT !.isActive = TRUE, !.currentMode = mode,
                   !.selectedElements = <<>>, !.ret = "true"]

deactivate(m) ==
    [m EXCEPT !.isActive = FALSE, !.currentMode = "", !.selectedElements = <<>>]

\* _isValidSelection taking the types in the listed order only
_isValidSelection_ordered(m, element) ==
    IF m.currentMode \notin AuxKinds THEN FALSE
    ELSE LET req == selectionRequirements(m.currentMode)
             currentIndex == Len(m.selectedElements)
         IN  IF currentIndex >= req.count THEN FALSE
             ELSE req.types[currentIndex + 1] = element.type

_isValidSelection(m, element) ==
    IF m.currentMode \notin AuxKinds THEN FALSE
    ELSE LET req == selectionRequirements(m.currentMode)
             currentIndex == Len(m.selectedElements)
         IN  IF currentIndex >= req.count THEN FALSE
             ELSE IF req.types[currentIndex + 1] = element.type THEN TRUE
             ELSE IF m.currentMode \in {"parallel", "perpendicular"}
                  THEN IF currentIndex = 0 THEN element.type \in {"vertex", "edge"}
                       ELSE LET firstType == m.selectedElements[1].type
                            IN  \/ firstType = "vertex" /\ element.type = "edge"
                                \/ firstType = "edge" /\ element.type = "vertex"
                  ELSE FALSE

AuxiliaryLine(type, shape, params) ==
    [type |-> type, shape |-> shape, params |-> params]

\* the first selected element of a type, as sel.find(s => s.type === t)
FindSel(sel, t) ==
    LET ks == {k \in DOMAIN sel : sel[k].type = t}
    IN  IF ks = {} THEN 0 ELSE CHOOSE k \in ks : \A j \in ks : k <= j

\* the line _tryCreateAuxiliaryLine builds from a full selection; type ""
\* stands for auxLine === null
BuildLine(mode, sel) ==
    LET none == AuxiliaryLine("", 0, <<>>)
        v == FindSel(sel, "vertex")
        e == FindSel(sel, "edge")
    IN  CASE mode = "connecting" ->
               IF sel[1].shape = sel[2].shape
               THEN AuxiliaryLine(mode, sel[1].shape,
                        [vertexIndex1 |-> sel[1].index, vertexIndex2 |-> sel[2].index])
               ELSE none
          [] mode \in {"median", "altitude", "angle-bisector"} ->
               AuxiliaryLine(mode, sel[1].shape, [vertexIndex |-> sel[1].index])
          [] mode = "perpendicular-bisector" ->
               AuxiliaryLine(mode, sel[1].shape, [edgeIndex |-> sel[1].index])
          [] mode = "parallel" ->
               IF v # 0 /\ e # 0 /\ sel[v].shape = sel[e].shape
               THEN AuxiliaryLine(mode, sel[v].shape,
                        [throughVertexIndex |-> sel[v].index,
                         parallelToEdgeIndex |-> sel[e].index])
               ELSE none
          [] mode = "perpendicular" ->
               IF v # 0 /\ e # 0 /\ sel[v].shape = sel[e].shape
               THEN AuxiliaryLine(mode, sel[v].shape,
                        [throughVertexIndex |-> sel[v].index,
                         perpendicularToEdgeIndex |-> sel[e].index])
               ELSE none
          [] mode = "midline" ->
               IF sel[1].shape = sel[2].shape
               THEN AuxiliaryLine(mode, sel[1].shape,
                        [edgeIndex1 |-> sel[1].index, edgeIndex2 |-> sel[2].index])
               ELSE none
          [] mode = "extension" ->
               AuxiliaryLine(mode, sel[1].shape,
                             [edgeIndex |-> sel[1].index, direction |-> "both"])

\* _tryCreateAuxiliaryLine ending the session with the line it emits
_tryCreateAuxiliaryLine_ending(m) ==
    IF m.currentMode \notin AuxKinds
         \/ Len(m.selectedElements) < selectionRequirements(m.currentMode).count
    THEN [m EXCEPT !.ret = "null"]
    ELSE LET auxLine == BuildLine(m.currentMode, m.selectedElements)
         IN  IF auxLine.type # ""
             THEN [m EXCEPT !.auxiliaryLines = Append(@, auxLine),
                            !.selectedElements = <<>>, !.isActive = FALSE,
                            !.currentMode = "", !.ret = "line"]
             ELSE [m EXCEPT !.ret = "null"]

_tryCreateAuxiliaryLine(m) ==
    IF m.currentMode \notin AuxKinds
         \/ Len(m.selectedElements) < selectionRequirements(m.currentMode).count
    THEN [m EXCEPT !.ret = "null"]
    ELSE LET auxLine == BuildLine(m.currentMode, m.selectedElements)
         IN  IF auxLine.type # ""
             THEN [m EXCEPT !.auxiliaryLines = Append(@, auxLine),
                            !.selectedElements = <<>>, !.ret = "line"]
             ELSE [m EXCEPT !.ret = "null"]

\* handleClick(pos), element being what findElementAt(pos) found (type ""
\* for null)
handleClick(m, element) ==
    IF ~m.isActive \/ m.currentMode = "" THEN [m EXCEPT !.ret = "null"]
    ELSE IF element.type = "" THEN [m EXCEPT !.ret = "null"]
    ELSE IF ~_isValidSelection(m, element) THEN [m EXCEPT !.ret = "null"]
    ELSE _tryCreateAuxiliaryLine(
             [m EXCEPT !.selectedElements = Append(@, element)])

removeLastAuxiliaryLine(m) ==
    [m EXCEPT !.auxiliaryLines =
        IF Len(@) = 0 THEN @ ELSE SubSeq(@, 1, Len(@) - 1)]

clearAll(m) == [m EXCEPT !.auxiliaryLines = <<>>, !.selectedElements = <<>>]

ManagerState ==
    [isActive |-> isActive, currentMode |-> currentMode,
     selectedElements |-> selectedElements, auxiliaryLines |-> auxiliaryLines,
     ret |-> ""]

\* the vertex / edge indexes the clicks pick
ClickIndexes == {0}

NoElement == [type |-> "", index |-> 0, shape |-> 0]

\* what findElementAt can return: a vertex or an edge of a shape of the
\* engine that supports the current mode, or null
Elements ==
    {NoElement} \cup
    {[type |-> t, index |-> i, shape |-> shapes[k]] :
        t \in {"vertex", "edge"}, i \in ClickIndexes,
        k \in {j \in DOMAIN shapes :
                 currentMode = "" \/ currentMode \in getAvailableTypes(heap[shapes[j]])}}

ValidElement(el) ==
    IF el.type = "" THEN TRUE ELSE el.index < NumPoints(heap[el.shape])

\* is the result of AuxiliaryLine.getEndpoints() null
EndpointsNull(h, line) ==
    LET s == h[line.shape]
        n == NumPoints(s)
        p == line.params
        ZeroEdge(i) == s.points[i] = s.points[(i + 1) % n]
    IN  CASE line.type = "connecting" -> p.vertexIndex1 >= n \/ p.vertexIndex2 >= n
          [] line.type \in {"median", "altitude", "angle-bisector"} ->
               p.vertexIndex >= n \/ n < 3
          [] line.type \in {"perpendicular-bisector", "extension"} ->
               p.edgeIndex >= n \/ ZeroEdge(p.edgeIndex)
          [] line.type = "parallel" ->
               \/ p.throughVertexIndex >= n \/ p.parallelToEdgeIndex >= n
               \/ ZeroEdge(p.parallelToEdgeIndex)
          [] line.type = "perpendicular" ->
               p.throughVertexIndex >= n \/ p.perpendicularToEdgeIndex >= n
          [] line.type = "midline" -> p.edgeIndex1 >= n \/ p.edgeIndex2 >= n
          [] OTHER -> TRUE

\* ---------------------------------------------- AuxiliaryLine.getEndpoints
\* a * b / c rounded, for c # 0; a and c are divided by a common number
\* first where the product would leave the 32 bits of the model's integers
MulDiv(a, b, c) ==
    LET sa == IF c < 0 THEN 0 - a ELSE a
        sc == Abs(c)
        k == Abs(a) \div 30000 + 1
        ck == RoundDiv(sc, k)
    IN  IF Abs(a) <= 900000000 \div (Abs(b) + 1) THEN RoundDiv(sa * b, sc)
        ELSE IF ck = 0 THEN (IF (sa < 0) = (b < 0) THEN 100000000 ELSE 0 - 100000000)
        ELSE RoundDiv(RoundDiv(sa, k) * b, ck)

\* the result of a query: null, or the two endpoints and the line type
NoResult == [isNull |-> TRUE, start |-> Point(0, 0), end |-> Point(0, 0), type |-> ""]

Result(start, end, type) ==
    [isNull |-> FALSE, start |-> start, end |-> end, type |-> type]

NoQuery == [line |-> 0, result |-> NoResult]

_perpendicularFoot(point, lineStart, lineEnd) ==
    LET dx == lineEnd.x - lineStart.x
        dy == lineEnd.y - lineStart.y
        len2 == dx * dx + dy * dy
        num == (point.x - lineStart.x) * dx + (point.y - lineStart.y) * dy
    IN  IF len2 = 0 THEN lineStart
        ELSE Point(lineStart.x + MulDiv(num, dx, len2),
                   lineStart.y + MulDiv(num, dy, len2))

\* _lineIntersection; isNull when the lines are parallel
_lineIntersection(p1, p2, p3, p4) ==
    LET d1x == p2.x - p1.x
        d1y == p2.y - p1.y
        d2x == p4.x - p3.x
        d2y == p4.y - p3.y
        crs == d1x * d2y - d1y * d2x
        tnum == (p3.x - p1.x) * d2y - (p3.y - p1.y) * d2x
    IN  IF crs = 0 THEN [isNull |-> TRUE, point |-> Point(0, 0)]
        ELSE [isNull |-> FALSE,
              point |-> Point(p1.x + MulDiv(tnum, d1x, crs),
                              p1.y + MulDiv(tnum, d1y, crs))]

\* _isPointOnSegment, its margin of 0.1 pixel in grid steps
_isPointOnSegment(point, segStart, segEnd) ==
    LET margin == RoundDiv(Scale, 10)
    IN  /\ point.x >= Min2(segStart.x, segEnd.x) - margin
        /\ point.x <= Max2(segStart.x, segEnd.x) + margin
        /\ point.y >= Min2(segStart.y, segEnd.y) - margin
        /\ point.y <= Max2(segStart.y, segEnd.y) + margin

\* a point at distance len from p, along (dx, dy) of length dist > 0
Extend(p, dx, dy, dist, len) ==
    Point(p.x + RoundDiv(dx * len, dist), p.y + RoundDiv(dy * len, dist))

_getAngleBisectorEndpoints(points, n, vertexIndex) ==
    LET vertex == points[vertexIndex]
        prevIndex == (vertexIndex + n - 1) % n
        prev == points[prevIndex]
        next == points[(vertexIndex + 1) % n]
        d1 == fromPoints(vertex, prev)
        d2 == fromPoints(vertex, next)
        \* the unit vectors, in parts of Milli; (0, 0) for a zero vector
        v1 == Point(NormTimes(d1.x, length(d1), Milli), NormTimes(d1.y, length(d1), Milli))
        v2 == Point(NormTimes(d2.x, length(d2), Milli), NormTimes(d2.y, length(d2), Milli))
        sum == Point(v1.x + v2.x, v1.y + v2.y)
        bisectorEnd == Point(vertex.x + NormTimes(sum.x, length(sum), Px(500)),
                             vertex.y + NormTimes(sum.y, length(sum), Px(500)))
        Inter(i) == _lineIntersection(vertex, bisectorEnd, points[i], points[(i + 1) % n])
        hits == {i \in 0 .. n - 1 :
                   /\ i # vertexIndex /\ i # prevIndex
                   /\ ~Inter(i).isNull
                   /\ _isPointOnSegment(Inter(i).point, points[i], points[(i + 1) % n])}
    IN  IF hits = {} THEN Result(vertex, bisectorEnd, "ray")
        ELSE Result(vertex, Inter(CHOOSE i \in hits : \A j \in hits : i <= j).point, "ray")

\* a median drawn to the middle of the edge that starts at the vertex
_getMedianEndpoints_adjacent(points, n, vertexIndex) ==
    IF vertexIndex >= n \/ n < 3 THEN NoResult
    ELSE Result(points[vertexIndex],
                midpoint(points[vertexIndex], points[(vertexIndex + 1) % n]), "segment")

_getMedianEndpoints(points, n, vertexIndex) ==
    IF vertexIndex >= n \/ n < 3 THEN NoResult
    ELSE Result(points[vertexIndex],
                midpoint(points[(vertexIndex + 1) % n], points[(vertexIndex + 2) % n]),
                "segment")

\* AuxiliaryLine.getEndpoints() on the vertices the heap holds now
getEndpoints(h, line) ==
    LET points == h[line.shape].points
        n == NumPoints(h[line.shape])
        p == line.params
        Edge(i) == fromPoints(points[i], points[(i + 1) % n])
    IN  CASE line.type = "connecting" ->
               IF p.vertexIndex1 >= n \/ p.vertexIndex2 >= n THEN NoResult
               ELSE Result(points[p.vertexIndex1], points[p.vertexIndex2], "segment")
          [] line.type = "median" ->
               _getMedianEndpoints(points, n, p.vertexIndex)
          [] line.type = "altitude" ->
               IF p.vertexIndex >= n \/ n < 3 THEN NoResult
               ELSE Result(points[p.vertexIndex],
                           _perpendicularFoot(points[p.vertexIndex],
                                              points[(p.vertexIndex + 1) % n],
                                              points[(p.vertexIndex + 2) % n]), "segment")
          [] line.type = "perpendicular-bisector" ->
               IF p.edgeIndex >= n THEN NoResult
               ELSE LET e == Edge(p.edgeIndex)
                        len == length(e)
                        mid == midpoint(points[p.edgeIndex], points[(p.edgeIndex + 1) % n])
                    IN  IF Len2(e) = 0 THEN NoResult
                        ELSE Result(Extend(mid, e.y, 0 - e.x, len, Px(300)),
                                    Extend(mid, 0 - e.y, e.x, len, Px(300)), "line")
          [] line.type = "angle-bisector" ->
               IF p.vertexIndex >= n \/ n < 3 THEN NoResult
               ELSE _getAngleBisectorEndpoints(points, n, p.vertexIndex)
          [] line.type = "parallel" ->
               IF p.throughVertexIndex >= n \/ p.parallelToEdgeIndex >= n THEN NoResult
               ELSE LET e == Edge(p.parallelToEdgeIndex)
                        len == length(e)
                        through == points[p.throughVertexIndex]
                    IN  IF Len2(e) = 0 THEN NoResult
                        ELSE Result(Extend(through, 0 - e.x, 0 - e.y, len, Px(300)),
                                    Extend(through, e.x, e.y, len, Px(300)), "line")
          [] line.type = "perpendicular" ->
               IF p.throughVertexIndex >= n \/ p.perpendicularToEdgeIndex >= n THEN NoResult
               ELSE Result(points[p.throughVertexIndex],
                           _perpendicularFoot(points[p.throughVertexIndex],
                                              points[p.perpendicularToEdgeIndex],
                                              points[(p.perpendicularToEdgeIndex + 1) % n]),
                           "segment")
          [] line.type = "midline" ->
               IF p.edgeIndex1 >= n \/ p.edgeIndex2 >= n THEN NoResult
               ELSE Result(midpoint(points[p.edgeIndex1], points[(p.edgeIndex1 + 1) % n]),
                           midpoint(points[p.edgeIndex2], points[(p.edgeIndex2 + 1) % n]),
                           "segment")
          [] line.type = "extension" ->
               IF p.edgeIndex >= n THEN NoResult
               ELSE LET e == Edge(p.edgeIndex)
                        len == length(e)
                        p1 == points[p.edgeIndex]
                        p2 == points[(p.edgeIndex + 1) % n]
                        back == Extend(p1, 0 - e.x, 0 - e.y, len, Px(150))
                        forth == Extend(p2, e.x, e.y, len, Px(150))
                    IN  IF Len2(e) = 0 THEN NoResult
                        ELSE IF p.direction = "both" THEN Result(back, forth, "ray")
                        ELSE IF p.direction = "start" THEN Result(back, p1, "ray")
                        ELSE Result(p2, forth, "ray")
          [] OTHER -> NoResult

\* ------------------------------------------------------------- the inputs
\* the tags loaded from the sidebar in the application's specification
AppTags == {"triangle-right", "circle"}

\* the entries of a file: shapes saved by an earlier session, an entry the
\* factory throws on (a triangle without points) and one of unknown type
FileEntries ==
    {toJSON(translate(createShape2D(tag, id), Px(40 * id), 0)) :
        tag \in {"triangle-right", "circle"}, id \in 1 .. 2}
    \cup {[BlankJSON EXCEPT !.keys = {"id", "type"}, !.id = 1, !.type = "triangle"],
          [BlankJSON EXCEPT !.keys = {"id", "type"}, !.id = 1, !.type = "cube"]}

FileShapes ==
    UNION {[1 .. n -> FileEntries] : n \in 0 .. MaxFileLen}

\* the parsed content of a file; parseOk is false when JSON.parse throws
Files ==
    {[parseOk |-> FALSE, hasShowOptions |-> FALSE,
      showOptions |-> DefaultShowOptions, hasShapes |-> FALSE, shapes |-> <<>>]}
    \cup
    {[parseOk |-> TRUE, hasShowOptions |-> o,
      showOptions |-> [DefaultShowOptions EXCEPT !.diagonals = TRUE],
      hasShapes |-> TRUE, shapes |-> f] : o \in BOOLEAN, f \in FileShapes}

\* the files loaded while auxiliary lines are constructed: two triangles,
\* and one circle
AuxFiles ==
    {f \in Files :
        /\ f.parseOk /\ ~f.hasShowOptions
        /\ \/ /\ Len(f.shapes) = 2
              /\ \A i \in 1 .. 2 : f.shapes[i].type = "triangle" /\ f.shapes[i].id = i
              /\ \A i \in 1 .. 2 : Has(f.shapes[i], "points")
           \/ /\ Len(f.shapes) = 1
              /\ f.shapes[1].type = "circle" /\ f.shapes[1].id = 1}

\* --------------------------------------------------------------- actions
Init ==
    /\ heap = <<>>
    /\ shapeIdCounter = 0
    /\ shapes = <<>>
    /\ selectedShape = 0
    /\ draggingPointIndex = 0 - 1
    /\ isRotating = FALSE
    /\ interactionEnabled = TRUE
    /\ showOptions = DefaultShowOptions
    /\ currentShape = 0
    /\ activeTool = ""
    /\ measure = NewMeasureTool
    /\ isActive = FALSE
    /\ currentMode = ""
    /\ selectedElements = <<>>
    /\ auxiliaryLines = <<>>
    /\ lastOp = Op("new", "", "")
    /\ restored = NoShape
    /\ queried = NoQuery
    /\ isMovingShape = FALSE
    /\ lastMousePos = NoPos
    /\ animation = NoAnimation
    /\ autoSaveTimer = FALSE
    /\ storage = NoSave
    /\ edits = 0

\* GeometryApp.loadShape(shapeId)
LoadShape(tag) ==
    /\ shapeIdCounter < MaxCounter
    /\ LET ser == shapeIdCounter + 1
           shape == centerShape(createShape2D(tag, ser))
       IN  /\ heap' = (ser :> [shape EXCEPT !.selected = TRUE])
           /\ shapeIdCounter' = ser
           /\ shapes' = <<ser>>
           /\ selectedShape' = ser
           /\ currentShape' = ser
    /\ auxiliaryLines' = <<>>
    /\ selectedElements' = <<>>
    /\ edits' = 0
    /\ autoSaveTimer' = TRUE
    /\ lastOp' = Op("loadShape", "", "")
    /\ UNCHANGED <<draggingPointIndex, isRotating, interactionEnabled, showOptions,
                   activeTool, measure, isActive, currentMode, probeVars, appVars, storage>>

\* GeometryApp.addDrawnShape({type: 'point', x, y}): the draw tool's result
AddDrawnShape ==
    /\ shapeIdCounter < MaxCounter
    /\ LET ser == shapeIdCounter + 1
           h == heap @@ (ser :> Point2D(ser, Px(100), Px(100)))
       IN  /\ shapeIdCounter' = ser
           /\ shapes' = MapSet(h, shapes, ser)
           /\ heap' = Collect(h, shapes', selectedShape, currentShape,
                              selectedElements, auxiliaryLines)
    /\ lastOp' = Op("addDrawnShape", "point", "")
    /\ UNCHANGED <<selectedShape, draggingPointIndex, isRotating, interactionEnabled,
                   showOptions, currentShape, activeTool, measure, managerVars, probeVars, appVars, saveVars, edits>>

\* the body of reader.onload in GeometryApp.loadFromFile
LoadFromFile(data) ==
    /\ shapeIdCounter + Len(data.shapes) <= MaxCounter
    /\ IF ~data.parseOk
       THEN /\ lastOp' = Op("loadFromFile", "", "failed")
            /\ UNCHANGED <<heap, shapeIdCounter, shapes, selectedShape,
                           showOptions, currentShape>>
       ELSE LET e == load(EngineState, data)
                first == IF Len(e.shapes) > 0 THEN e.shapes[1] ELSE 0
                sel == IF e.threw \/ first = 0 THEN e.selectedShape ELSE first
                cur == IF e.threw \/ first = 0 THEN currentShape ELSE first
                h == IF e.threw \/ first = 0 THEN e.heap
                     ELSE selectShape(e.heap, e.selectedShape, first)
            IN  /\ shapeIdCounter' = e.counter
                /\ shapes' = e.shapes
                /\ showOptions' = e.showOptions
                /\ selectedShape' = sel
                /\ currentShape' = cur
                /\ heap' = Collect(h, e.shapes, sel, cur, selectedElements, auxiliaryLines)
                /\ lastOp' = Op("loadFromFile", "", IF e.threw THEN "failed" ELSE "ok")
    /\ UNCHANGED <<draggingPointIndex, isRotating, interactionEnabled, activeTool, measure,
                   managerVars, probeVars, appVars, saveVars, edits>>

\* GeometryApp.clearAllData(), the dialog confirmed
ClearAllData ==
    /\ shapes' = <<>>
    /\ selectedShape' = 0
    /\ currentShape' = 0
    /\ auxiliaryLines' = <<>>
    /\ selectedElements' = <<>>
    /\ heap' = <<>>
    /\ storage' = NoSave
    /\ lastOp' = Op("clearAllData", "", "")
    /\ UNCHANGED <<shapeIdCounter, draggingPointIndex, isRotating, interactionEnabled,
                   showOptions, activeTool, measure, isActive, currentMode, probeVars, appVars,
                   autoSaveTimer, edits>>

\* the change handler of a display-option checkbox
ToggleOption(option) ==
    /\ showOptions' = [showOptions EXCEPT ![option] = ~@]
    /\ lastOp' = Op("toggleOption", option, "")
    /\ UNCHANGED <<heap, shapeIdCounter, shapes, selectedShape, draggingPointIndex,
                   isRotating, interactionEnabled, currentShape, activeTool, measure,
                   managerVars, probeVars, appVars, saveVars, edits>>

SetManager(m) ==
    /\ isActive' = m.isActive
    /\ currentMode' = m.currentMode
    /\ selectedElements' = m.selectedElements
    /\ auxiliaryLines' = m.auxiliaryLines
    /\ heap' = Collect(heap, shapes, selectedShape, currentShape,
                       m.selectedElements, m.auxiliaryLines)

\* AuxiliaryLineManager.activate(mode)
Activate(mode) ==
    /\ LET m == activate(ManagerState, heap, shapes, mode)
       IN  SetManager(m)
           /\ lastOp' = Op("activate", mode, m.ret)
    /\ UNCHANGED <<shapeIdCounter, engineVars, currentShape, activeTool, measure, probeVars, appVars, saveVars, edits>>

\* AuxiliaryLineManager.deactivate()
Deactivate ==
    /\ SetManager(deactivate(ManagerState))
    /\ lastOp' = Op("deactivate", "", "")
    /\ UNCHANGED <<shapeIdCounter, engineVars, currentShape, activeTool, measure, probeVars, appVars, saveVars, edits>>

\* AuxiliaryLineManager.handleClick(pos)
HandleClick(element) ==
    /\ ValidElement(element)
    /\ LET m == handleClick(ManagerState, element)
       IN  /\ Len(m.auxiliaryLines) <= MaxLines
           /\ SetManager(m)
           /\ lastOp' = Op("handleClick", "", m.ret)
    /\ UNCHANGED <<shapeIdCounter, engineVars, currentShape, activeTool, measure, probeVars, appVars, saveVars, edits>>

\* AuxiliaryLineManager.removeLastAuxiliaryLine()
RemoveLastAuxiliaryLine ==
    /\ SetManager(removeLastAuxiliaryLine(ManagerState))
    /\ lastOp' = Op("removeLastAuxiliaryLine", "", "")
    /\ UNCHANGED <<shapeIdCounter, engineVars, currentShape, activeTool, measure, probeVars, appVars, saveVars, edits>>

\* the auxiliary line manager's methods, on the shapes the application
\* puts into the engine
Next ==
    \/ \E tag \in AppTags : LoadShape(tag)
    \/ \E data \in AuxFiles : LoadFromFile(data)
    \/ ClearAllData
    \/ \E mode \in AuxKinds : Activate(mode)
    \/ Deactivate
    \/ \E element \in Elements : HandleClick(element)
    \/ RemoveLastAuxiliaryLine

Spec == Init /\ [][Next]_vars

\* loading, drawing and clearing shapes
NextLoad ==
    \/ \E tag \in AppTags : LoadShape(tag)
    \/ AddDrawnShape
    \/ \E data \in Files : LoadFromFile(data)
    \/ ClearAllData
    \/ \E option \in {"diagonals"} : ToggleOption(option)

SpecLoad == Init /\ [][NextLoad]_vars

\* ------------------------------------------------ pointer events, edits
\* where a pointer can be: pixels, some outside the canvas margin
DragTargets ==
    {Point(Px(380), Px(110)), Point(Px(150), Px(300)),
     Point(Px(250), Px(200)), Point(Px(520), Px(110))}

\* the angles a rotation by the centre handle can make, degrees
RotDegs == {90}

\* the free polygon the draw tool makes (GeometryApp.addDrawnShape)
DrawnPolygon(id) ==
    Polygon(id, (0 :> Point(Px(300), Px(100))) @@ (1 :> Point(Px(350), Px(300)))
                  @@ (2 :> Point(Px(100), Px(250))),
            Point(0, 0), 3, FALSE)

\* the session after its first shape has been put on the canvas: by
\* loadShape(tag), or drawn as a free polygon
InitShape ==
    /\ \E tag \in Tags \cup {"polygon-custom"} :
         /\ heap = (1 :> IF tag = "polygon-custom"
                         THEN [DrawnPolygon(1) EXCEPT !.selected = TRUE]
                         ELSE [centerShape(createShape2D(tag, 1)) EXCEPT !.selected = TRUE])
         /\ autoSaveTimer = (tag # "polygon-custom")
    /\ shapeIdCounter = 1
    /\ shapes = <<1>>
    /\ selectedShape = 1
    /\ currentShape = 1
    /\ draggingPointIndex = 0 - 1
    /\ isRotating = FALSE
    /\ interactionEnabled = TRUE
    /\ showOptions = DefaultShowOptions
    /\ activeTool = ""
    /\ measure = NewMeasureTool
    /\ isActive = FALSE
    /\ currentMode = ""
    /\ selectedElements = <<>>
    /\ auxiliaryLines = <<>>
    /\ lastOp = Op("loadShape", "", "")
    /\ restored = NoShape
    /\ queried = NoQuery
    /\ isMovingShape = FALSE
    /\ lastMousePos = NoPos
    /\ animation = NoAnimation
    /\ storage = NoSave
    /\ edits = 0

\* is the pointer on the rotation handle when it is on vertex idx
NearCenter(s, idx) ==
    Len2(fromPoints(s.points[idx], getCenter(s))) <= Px(20) * Px(20)

\* the mousedown listener of GeometryApp.bindEvents, which runs after the
\* engine's: cur is app.currentShape after the engine's select event
AppMouseDown(cur, pos) ==
    IF activeTool = "move" /\ cur # 0
    THEN isMovingShape' = TRUE /\ lastMousePos' = pos
    ELSE UNCHANGED <<isMovingShape, lastMousePos>>

\* the mousemove listener of GeometryApp.bindEvents, which runs after the
\* engine's, on the heap h the engine's listener left
AppMouseMove(h, pos) ==
    IF isMovingShape /\ currentShape # 0 /\ lastMousePos # NoPos
    THEN /\ heap' = [h EXCEPT ![currentShape] =
                        translate(@, pos.x - lastMousePos.x, pos.y - lastMousePos.y)]
         /\ lastMousePos' = pos
    ELSE /\ heap' = h
         /\ lastMousePos' = lastMousePos

\* canvas mousedown on the centre handle of a shape: GeometryEngine._onMouseDown,
\* then the application's listener
MouseDownCenter(k) ==
    /\ interactionEnabled
    /\ ~HasNaN(heap[shapes[k]])
    /\ isRotating' = TRUE
    /\ selectedShape' = shapes[k]
    /\ AppMouseDown(currentShape, getCenter(heap[shapes[k]]))
    /\ lastOp' = Op("mouseDown", "center", "")
    /\ UNCHANGED <<heap, shapeIdCounter, shapes, draggingPointIndex, interactionEnabled,
                   showOptions, currentShape, activeTool, measure, managerVars, probeVars,
                   animation, saveVars, edits>>

\* canvas mousedown on vertex idx of a shape: GeometryEngine._onMouseDown,
\* then the application's listener
MouseDownVertex(k, idx) ==
    /\ interactionEnabled
    /\ idx \in DOMAIN heap[shapes[k]].points
    /\ ~HasNaN(heap[shapes[k]])
    /\ ~NearCenter(heap[shapes[k]], idx)
    /\ selectedShape' = shapes[k]
    /\ draggingPointIndex' = idx
    /\ heap' = selectShape(heap, shapes[k], shapes[k])
    /\ currentShape' = shapes[k]
    /\ AppMouseDown(shapes[k], heap[shapes[k]].points[idx])
    /\ lastOp' = Op("mouseDown", "vertex", "")
    /\ UNCHANGED <<shapeIdCounter, shapes, isRotating, interactionEnabled, showOptions,
                   activeTool, measure, managerVars, probeVars, animation, saveVars, edits>>

\* GeometryUtils.pointInPolygon(point, polygon): the ray casting, its
\* division replaced by a product
pointInPolygon(point, polygon) ==
    LET n == Cardinality(DOMAIN polygon)
        Crosses(i) ==
            LET pi == polygon[i]
                pj == polygon[(i + n - 1) % n]
                lhs == (point.x - pi.x) * (pj.y - pi.y)
                rhs == (pj.x - pi.x) * (point.y - pi.y)
            IN  /\ (pi.y > point.y) # (pj.y > point.y)
                /\ IF pj.y > pi.y THEN lhs < rhs ELSE lhs > rhs
    IN  Cardinality({i \in 0 .. n - 1 : Crosses(i)}) % 2 = 1

\* Shape.findPointAt(pos) with its tolerance of 15 pixels finds no vertex
NoPointAt(s, pos) ==
    \A i \in DOMAIN s.points : Len2(fromPoints(s.points[i], pos)) > Px(15) * Px(15)

\* places inside a polygon: half way from the centre to a vertex
InsidePlaces(s) ==
    {midpoint(getCenter(s), s.points[i]) : i \in DOMAIN s.points}

\* canvas mousedown inside a triangle, quadrilateral or polygon, neither on
\* the centre handle nor on a vertex
MouseDownInside(k, pos) ==
    /\ interactionEnabled
    /\ heap[shapes[k]].type \in {"triangle", "quadrilateral", "polygon"}
    /\ ~HasNaN(heap[shapes[k]])
    /\ Len2(fromPoints(pos, getCenter(heap[shapes[k]]))) > Px(20) * Px(20)
    /\ NoPointAt(heap[shapes[k]], pos)
    /\ pointInPolygon(pos, heap[shapes[k]].points)
    /\ selectedShape' = shapes[k]
    /\ heap' = selectShape(heap, selectedShape, shapes[k])
    /\ currentShape' = shapes[k]
    /\ AppMouseDown(shapes[k], pos)
    /\ lastOp' = Op("mouseDown", "inside", "")
    /\ UNCHANGED <<shapeIdCounter, shapes, draggingPointIndex, isRotating,
                   interactionEnabled, showOptions, activeTool, measure, managerVars, probeVars,
                   animation, saveVars, edits>>

\* the clamp of _onMouseMove to the canvas
ClampToCanvas(pos) ==
    Point(Max2(Px(20), Min2(Px(CanvasW) - Px(20), pos.x)),
          Max2(Px(20), Min2(Px(CanvasH) - Px(20), pos.y)))

\* canvas mousemove while a vertex is dragged: GeometryEngine._onMouseMove,
\* whose change event schedules an auto-save, then the application's listener
MouseMoveDrag(pos) ==
    /\ ~isRotating
    /\ draggingPointIndex >= 0
    /\ selectedShape # 0
    /\ edits < MaxEdits
    /\ Solved(heap[selectedShape])
    /\ ~HasNaN(heap[selectedShape])
    /\ LET s == heap[selectedShape]
           raw == [s EXCEPT !.points[draggingPointIndex] = ClampToCanvas(pos)]
       IN  AppMouseMove([heap EXCEPT ![selectedShape] =
                            applyConstraints(raw, draggingPointIndex)], pos)
    /\ autoSaveTimer' = TRUE
    /\ edits' = edits + 1
    /\ lastOp' = Op("mouseMove", "drag", "")
    /\ UNCHANGED <<shapeIdCounter, engineVars, currentShape, activeTool, measure, managerVars,
                   probeVars, isMovingShape, animation, storage>>

\* canvas mousemove while the centre handle is dragged, the pointer at pos
\* having turned by deg about the centre since the last event
MouseMoveRotate(deg) ==
    /\ isRotating
    /\ selectedShape # 0
    /\ edits < MaxEdits
    /\ \E pos \in IF isMovingShape THEN DragTargets ELSE {NoPos} :
         AppMouseMove([heap EXCEPT ![selectedShape] = rotate(@, deg)], pos)
    /\ autoSaveTimer' = TRUE
    /\ edits' = edits + 1
    /\ lastOp' = Op("mouseMove", "rotate", "")
    /\ UNCHANGED <<shapeIdCounter, engineVars, currentShape, activeTool, measure, managerVars,
                   probeVars, isMovingShape, animation, storage>>

\* canvas mousemove with no vertex and no handle held, the move tool
\* dragging: the engine's listener sets the cursor, the application's
\* translates the current shape
MouseMoveIdle(pos) ==
    /\ ~(isRotating /\ selectedShape # 0)
    /\ ~(draggingPointIndex >= 0 /\ selectedShape # 0)
    /\ isMovingShape
    /\ edits < MaxEdits
    /\ AppMouseMove(heap, pos)
    /\ edits' = edits + 1
    /\ lastOp' = Op("mouseMove", "move", "")
    /\ UNCHANGED <<shapeIdCounter, engineVars, currentShape, activeTool, measure, managerVars,
                   probeVars, isMovingShape, animation, saveVars>>

\* canvas mouseup: GeometryEngine._onMouseUp, then the application's listener
MouseUp ==
    /\ draggingPointIndex' = 0 - 1
    /\ isRotating' = FALSE
    /\ isMovingShape' = FALSE
    /\ lastMousePos' = NoPos
    /\ lastOp' = Op("mouseUp", "", "")
    /\ UNCHANGED <<heap, shapeIdCounter, shapes, selectedShape, interactionEnabled,
                   showOptions, currentShape, activeTool, measure, managerVars, probeVars,
                   animation, saveVars, edits>>

\* GeometryApp.handleToolAction('move'): the move tool switched on or off
MoveTool ==
    /\ activeTool \in {"", "move"}
    /\ activeTool' = IF activeTool = "move" THEN "" ELSE "move"
    /\ isMovingShape' = IF activeTool = "move" THEN FALSE ELSE isMovingShape
    /\ interactionEnabled' = TRUE
    /\ lastOp' = Op("handleToolAction", "move", "")
    /\ UNCHANGED <<heap, shapeIdCounter, shapes, selectedShape, draggingPointIndex,
                   isRotating, showOptions, currentShape, measure, managerVars,
                   probeVars, lastMousePos, animation, saveVars, edits>>

\* GeometryApp.playAnimation(): AnimationTool.playRotation(currentShape) up
\* to its first requestAnimationFrame; an animation counts as an edit
PlayAnimation ==
    /\ currentShape # 0
    /\ edits < MaxEdits
    /\ ~HasNaN(heap[currentShape])
    /\ animation' = [isPlaying |-> TRUE, shape |-> currentShape,
                     startAngles |-> heap[currentShape].points,
                     center |-> getCenter(heap[currentShape])]
    /\ edits' = edits + 1
    /\ lastOp' = Op("playAnimation", "", "")
    /\ UNCHANGED <<heap, shapeIdCounter, engineVars, currentShape, activeTool, measure,
                   managerVars, probeVars, isMovingShape, lastMousePos, saveVars>>

\* the angles, in degrees, of the frames of an animation: 360 is the last
FrameDegs == {90, 180, 360}

\* one frame of playRotation: every vertex is put where the start position
\* turned by deg about the centre is; the frame of 360 degrees ends it
AnimationFrame(deg) ==
    /\ animation.isPlaying
    /\ LET cs == CosSin(deg)
           c == animation.center
           Turned(p) == Point(c.x + RoundDiv((p.x - c.x) * cs[1] - (p.y - c.y) * cs[2], 10000),
                              c.y + RoundDiv((p.x - c.x) * cs[2] + (p.y - c.y) * cs[1], 10000))
       IN  heap' = IF animation.shape \in DOMAIN heap
                   THEN [heap EXCEPT ![animation.shape].points =
                            [i \in DOMAIN animation.startAngles |->
                                Turned(animation.startAngles[i])]]
                   ELSE heap
    /\ animation' = [animation EXCEPT !.isPlaying = (deg # 360)]
    /\ lastOp' = Op("animationFrame", "", "")
    /\ UNCHANGED <<shapeIdCounter, engineVars, currentShape, activeTool, measure, managerVars,
                   probeVars, isMovingShape, lastMousePos, saveVars, edits>>

\* the timeout of _scheduleAutoSave fires: _saveToLocalStorage()
AutoSaveFires ==
    /\ autoSaveTimer
    /\ storage' = [present |-> TRUE, heap |-> heap, shapes |-> shapes,
                   auxiliaryLines |-> auxiliaryLines]
    /\ autoSaveTimer' = FALSE
    /\ lastOp' = Op("autoSave", "", "")
    /\ UNCHANGED <<heap, shapeIdCounter, engineVars, currentShape, activeTool, measure,
                   managerVars, probeVars, appVars, edits>>

\* GeometryApp.zoomShape(factor), factor = tenths / 10
ZoomShape(tenths) ==
    /\ currentShape # 0
    /\ edits < MaxEdits
    /\ ~HasNaN(heap[currentShape])
    /\ heap' = [heap EXCEPT ![currentShape] = scale(@, tenths)]
    /\ edits' = edits + 1
    /\ lastOp' = Op("zoomShape", "", "")
    /\ UNCHANGED <<shapeIdCounter, engineVars, currentShape, activeTool, measure, managerVars,
                   probeVars, appVars, saveVars>>

\* GeometryApp.rotateShape(angle), the angle in degrees
RotateShape(deg) ==
    /\ currentShape # 0
    /\ edits < MaxEdits
    /\ ~HasNaN(heap[currentShape])
    /\ heap' = [heap EXCEPT ![currentShape] = rotate(@, deg)]
    /\ edits' = edits + 1
    /\ lastOp' = Op("rotateShape", "", "")
    /\ UNCHANGED <<shapeIdCounter, engineVars, currentShape, activeTool, measure, managerVars,
                   probeVars, appVars, saveVars>>

\* shapeFromJSON(shape.toJSON()) on the shape of the canvas
RoundTrip ==
    /\ shapeIdCounter < MaxCounter
    /\ currentShape # 0
    /\ ~HasNaN(heap[currentShape])
    /\ restored' = shapeFromJSON(toJSON(heap[currentShape]))
    /\ shapeIdCounter' = shapeIdCounter + 1
    /\ lastOp' = Op("roundTrip", "", "")
    /\ UNCHANGED <<heap, engineVars, currentShape, activeTool, measure, managerVars, queried, appVars, saveVars, edits>>

\* the places of the vertices of the selected shape: a vertex can be
\* dropped on another one
VertexPlaces ==
    IF selectedShape = 0 THEN {}
    ELSE {heap[selectedShape].points[i] : i \in DOMAIN heap[selectedShape].points}

\* vertex drags on one shape
NextGeom ==
    \/ \E k \in DOMAIN shapes, idx \in 0 .. 5 : MouseDownVertex(k, idx)
    \/ \E pos \in DragTargets \cup VertexPlaces : MouseMoveDrag(pos)
    \/ MouseUp

\* the shapes whose vertices are dragged onto every place: all but the
\* isosceles triangle and the regular polygons, which SpecDrag covers
InitGeom ==
    /\ InitShape
    /\ ~(heap[1].type = "triangle" /\ heap[1].subKind = "isosceles")
    /\ ~(heap[1].type = "polygon" /\ heap[1].isRegular)

SpecGeom == InitGeom /\ [][NextGeom]_vars

\* where a dragged vertex is put: a place of the canvas, or the place of
\* the next vertex of the shape
DragPlaces ==
    DragTargets \cup
    (IF selectedShape = 0 \/ draggingPointIndex < 0 THEN {}
     ELSE LET s == heap[selectedShape]
          IN  {s.points[(draggingPointIndex + 1) % NumPoints(s)]})

\* vertex drags on a shape of any sub-kind
NextDrag ==
    \/ \E k \in DOMAIN shapes, idx \in 0 .. 5 : MouseDownVertex(k, idx)
    \/ \E pos \in DragPlaces : MouseMoveDrag(pos)
    \/ MouseUp

SpecDrag == InitShape /\ [][NextDrag]_vars

\* every edit of one shape, and its serialization
NextShape ==
    \/ NextGeom
    \/ \E k \in DOMAIN shapes : MouseDownCenter(k)
    \/ \E deg \in RotDegs : MouseMoveRotate(deg)
    \/ \E tenths \in {12, 8} : ZoomShape(tenths)
    \/ \E deg \in {15, 345} : RotateShape(deg)
    \/ RoundTrip

SpecShape == InitShape /\ [][NextShape]_vars

\* ------------------------------------------------- endpoint queries
\* a query that answers from the result it gave last for the line
Query_cached(i) ==
    /\ i \in DOMAIN auxiliaryLines
    /\ ~HasNaN(heap[auxiliaryLines[i].shape])
    /\ queried' = [line |-> i,
                   result |-> IF queried.line = i THEN queried.result
                              ELSE getEndpoints(heap, auxiliaryLines[i])]
    /\ lastOp' = Op("getEndpoints", auxiliaryLines[i].type, "")
    /\ UNCHANGED <<heap, shapeIdCounter, engineVars, currentShape, activeTool, measure,
                   managerVars, restored, appVars, saveVars, edits>>

\* auxiliaryLines[i].getEndpoints(), as the renderer and the hit test call it
Query(i) ==
    /\ i \in DOMAIN auxiliaryLines
    /\ ~HasNaN(heap[auxiliaryLines[i].shape])
    /\ queried' = [line |-> i, result |-> getEndpoints(heap, auxiliaryLines[i])]
    /\ lastOp' = Op("getEndpoints", auxiliaryLines[i].type, "")
    /\ UNCHANGED <<heap, shapeIdCounter, engineVars, currentShape, activeTool, measure,
                   managerVars, restored, appVars, saveVars, edits>>

\* the triangle A(0,0), B(4,0), C(0,3)
SmallTriangle(id) ==
    Triangle(id, (0 :> Point(Px(0), Px(0))) @@ (1 :> Point(Px(4), Px(0)))
                   @@ (2 :> Point(Px(0), Px(3))), "any")

\* the shapes that carry a line
AuxShapes ==
    {SmallTriangle(1)} \cup
    {centerShape(createShape2D(tag, 1)) : tag \in {"triangle-any", "rectangle"}}

\* the lines the selections of the manager can build on a shape
AuxLines(s) ==
    IF NumPoints(s) < 3 THEN {}
    ELSE
        {AuxiliaryLine("median", 1, [vertexIndex |-> i]) : i \in {1, 2}}
        \cup {AuxiliaryLine(t, 1, [vertexIndex |-> 0]) : t \in {"altitude", "angle-bisector"}}
        \cup {AuxiliaryLine("connecting", 1, [vertexIndex1 |-> 0, vertexIndex2 |-> 2]),
              AuxiliaryLine("perpendicular-bisector", 1, [edgeIndex |-> 0]),
              AuxiliaryLine("parallel", 1,
                            [throughVertexIndex |-> 2, parallelToEdgeIndex |-> 0]),
              AuxiliaryLine("perpendicular", 1,
                            [throughVertexIndex |-> 2, perpendicularToEdgeIndex |-> 0]),
              AuxiliaryLine("midline", 1, [edgeIndex1 |-> 0, edgeIndex2 |-> 1]),
              AuxiliaryLine("extension", 1, [edgeIndex |-> 0, direction |-> "both"])}

\* a shape on the canvas and one auxiliary line on it, the auxiliary tool
\* put away and the move tool chosen or not
InitAux ==
    /\ \E s \in AuxShapes : \E line \in AuxLines(s) :
         /\ heap = (1 :> [s EXCEPT !.selected = TRUE])
         /\ auxiliaryLines = <<line>>
    /\ shapeIdCounter = 1
    /\ shapes = <<1>>
    /\ selectedShape = 1
    /\ currentShape = 1
    /\ draggingPointIndex = 0 - 1
    /\ isRotating = FALSE
    /\ interactionEnabled = TRUE
    /\ showOptions = DefaultShowOptions
    /\ activeTool \in {"", "move"}
    /\ measure = NewMeasureTool
    /\ isActive = FALSE
    /\ currentMode = ""
    /\ selectedElements = <<>>
    /\ lastOp = IF activeTool = "move" THEN Op("handleToolAction", "move", "")
                ELSE Op("deactivate", "", "")
    /\ restored = NoShape
    /\ queried = NoQuery
    /\ isMovingShape = FALSE
    /\ lastMousePos = NoPos
    /\ animation = NoAnimation
    /\ autoSaveTimer = TRUE
    /\ storage = NoSave
    /\ edits = 0

\* the edits of the shape that carries the line, and the queries
NextAux ==
    \/ MouseDownVertex(1, 1)
    \/ \E pos \in {Point(Px(380), Px(110)), heap[1].points[2]} : MouseMoveDrag(pos)
    \/ MouseUp
    \/ MouseDownInside(1, midpoint(getCenter(heap[1]), heap[1].points[0]))
    \/ \E pos \in {Point(Px(150), Px(300))} : MouseMoveIdle(pos)
    \/ ZoomShape(12)
    \/ RotateShape(15)
    \/ \E i \in DOMAIN auxiliaryLines : Query(i)

SpecAux == InitAux /\ [][NextAux]_vars

\* ------------------------------------------------- application sessions
\* a square or a free quadrilateral put on the canvas by loadShape
InitApp ==
    /\ InitShape
    /\ heap[1].type = "quadrilateral"
    /\ heap[1].subKind \in {"any", "square"}

\* a vertex drag while the rotation animation of the shape plays
NextAnim ==
    \/ PlayAnimation
    \/ \E deg \in FrameDegs : AnimationFrame(deg)
    \/ \E k \in DOMAIN shapes : MouseDownVertex(k, 0)
    \/ \E pos \in DragTargets : MouseMoveDrag(pos)
    \/ MouseUp

SpecAnim == InitApp /\ [][NextAnim]_vars

\* edits, the auto-save timer and the clear-all button
NextSave ==
    \/ LoadShape("square")
    \/ \E k \in DOMAIN shapes : MouseDownVertex(k, 0)
    \/ MouseMoveDrag(Point(Px(380), Px(110)))
    \/ MouseUp
    \/ ZoomShape(12)
    \/ RotateShape(15)
    \/ AutoSaveFires
    \/ ClearAllData

SpecSave == InitApp /\ [][NextSave]_vars

\* the pointer with the move tool switched on and off
NextMove ==
    \/ MoveTool
    \/ \E k \in DOMAIN shapes : MouseDownVertex(k, 0)
    \/ \E k \in DOMAIN shapes : MouseDownCenter(k)
    \/ \E k \in DOMAIN shapes :
          MouseDownInside(k, midpoint(getCenter(heap[shapes[k]]), heap[shapes[k]].points[0]))
    \/ MouseMoveDrag(Point(Px(380), Px(110)))
    \/ MouseMoveRotate(90)
    \/ MouseMoveIdle(Point(Px(150), Px(300)))
    \/ MouseUp

SpecMove == InitApp /\ [][NextMove]_vars

\* drags of the vertices of the factory's equilateral triangle
InitEquilateral ==
    /\ InitShape
    /\ heap[1].type = "triangle"
    /\ heap[1].subKind = "equilateral"

NextEquilateral ==
    \/ \E idx \in 0 .. 2 : MouseDownVertex(1, idx)
    \/ \E pos \in DragTargets \cup VertexPlaces \cup {Point(Px(400), Px(200))} :
          MouseMoveDrag(pos)
    \/ MouseUp

SpecEquilateral == InitEquilateral /\ [][NextEquilateral]_vars

\* ----------------------------------------------- auxiliary line sessions
\* does no shape of the engine list the kind among its family's types
NoShapeSupports(kind) ==
    \A k \in DOMAIN shapes : kind \notin supportedTypes(heap[shapes[k]].type)

\* C1: activate(kind), called when no shape of the engine belongs to a
\* family that lists kind, returns false and leaves isActive, currentMode
\* and the selection accumulator as they were
C1_ActivateRejected ==
    [][(lastOp'.op = "activate" /\ NoShapeSupports(lastOp'.arg))
         => /\ lastOp'.ret = "false"
            /\ isActive' = isActive
            /\ currentMode' = currentMode
            /\ selectedElements' = selectedElements]_vars

\* an activation of the altitude on a canvas that holds one circle
C1_Witness ==
    /\ lastOp = Op("activate", "altitude", "false")
    /\ Len(shapes) = 1
    /\ heap[shapes[1]].type = "circle"

\* C2 as stated: once handleClick has emitted a line the manager is
\* inactive, as after deactivate()
C2_InactiveAfterLine ==
    (lastOp.op = "handleClick" /\ lastOp.ret = "line")
        => (~isActive /\ currentMode = "" /\ selectedElements = <<>>)

\* C2: a click that emits a line empties the accumulator and leaves the
\* manager active in the same kind, with one line more; only deactivate()
\* makes it inactive
C2_ActiveAfterLine ==
    [][/\ (lastOp'.op = "handleClick" /\ lastOp'.ret = "line")
            => /\ isActive /\ isActive'
               /\ currentMode' = currentMode /\ currentMode' \in AuxKinds
               /\ selectedElements' = <<>>
               /\ Len(auxiliaryLines') = Len(auxiliaryLines) + 1
       /\ lastOp'.op = "deactivate"
            => (~isActive' /\ currentMode' = "" /\ selectedElements' = <<>>)
       /\ (isActive /\ ~isActive') => lastOp'.op = "deactivate"]_vars

\* a median has been emitted and the manager still collects for medians
C2_Witness ==
    /\ lastOp = Op("handleClick", "", "line")
    /\ isActive
    /\ currentMode = "median"
    /\ Len(auxiliaryLines) = 1

\* C3: while a session is on, the accumulator holds strictly fewer
\* elements than the kind requires
C3_AccumulatorBelowCount ==
    (isActive /\ currentMode \in AuxKinds)
        => Len(selectedElements) < selectionRequirements(currentMode).count

\* C4: every line the manager holds is bound to a shape of engine.shapes,
\* or its endpoint query yields null
C4_NoStaleLine ==
    \A i \in DOMAIN auxiliaryLines :
        \/ auxiliaryLines[i].shape \in Range(shapes)
        \/ EndpointsNull(heap, auxiliaryLines[i])

\* --------------------------------------------------- loading and identity
\* C7: a load that fails leaves the engine's shapes, its selection and its
\* display options as they were before the load
C7_FailedLoadChangesNothing ==
    [][(lastOp'.op = "loadFromFile" /\ lastOp'.ret = "failed")
         => /\ shapes' = shapes
            /\ selectedShape' = selectedShape
            /\ showOptions' = showOptions
            /\ \A k \in DOMAIN shapes : heap'[shapes[k]] = heap[shapes[k]]]_vars

\* C8: no two live shapes have the same id, and adding a shape never
\* takes another shape out of the engine
C8_UniqueIds ==
    [][/\ \A a, b \in DOMAIN heap' : a # b => heap'[a].id # heap'[b].id
       /\ lastOp'.op = "addDrawnShape" => Range(shapes) \subseteq Range(shapes')]_vars

\* ------------------------------------------------------ serialization
\* C5: shapeFromJSON(shape.toJSON()) is a shape of the same family and the
\* same sub-kind as shape
C5_RoundTripKind ==
    lastOp.op = "roundTrip"
        => /\ restored.type = heap[currentShape].type
           /\ restored.subKind = heap[currentShape].subKind

\* C6: shapeFromJSON(shape.toJSON()) has the vertices of shape, the control
\* point of a circle among them
C6_RoundTripPoints ==
    lastOp.op = "roundTrip" => restored.points = heap[currentShape].points

\* ------------------------------------------------------------ solvers
\* the sides of a shape at vertex i, as vectors from it
SideFrom(s, i, j) == fromPoints(s.points[i], s.points[j % NumPoints(s)])

\* C9: the sides of a right triangle at vertex 0 are perpendicular, up to
\* the rounding of the coordinates to one grid step
C9_RightAngleAtVertex0 ==
    \A ser \in DOMAIN heap :
        LET s == heap[ser]
            v1 == SideFrom(s, 0, 1)
            v2 == SideFrom(s, 0, 2)
        IN  (s.type = "triangle" /\ s.subKind = "right" /\ ~HasNaN(s))
                => Abs(dot(v1, v2)) <= Abs(v1.x) + Abs(v1.y) + Abs(v2.x) + Abs(v2.y)

\* has a corner of a square or rectangle just been dragged to a place that
\* is not the opposite corner
CornerDragged(s) ==
    /\ lastOp = Op("mouseMove", "drag", "")
    /\ s.type = "quadrilateral"
    /\ s.subKind \in {"square", "rectangle"}
    /\ ~HasNaN(s)
    /\ s.points[draggingPointIndex] # s.points[(draggingPointIndex + 2) % 4]

\* C10: after a corner of a square or rectangle is dragged to a place
\* other than the opposite corner, the adjacent sides are perpendicular at
\* all four corners, the diagonals are equal, and the four sides of a
\* square are equal
C10_SquareAfterDrag ==
    selectedShape # 0 =>
        LET s == heap[selectedShape]
        IN  CornerDragged(s)
              => /\ \A i \in 0 .. 3 :
                       dot(SideFrom(s, i, i + 1), SideFrom(s, i, i + 3)) = 0
                 /\ Len2(SideFrom(s, 0, 2)) = Len2(SideFrom(s, 1, 3))
                 /\ s.subKind = "square" =>
                       \A i \in 1 .. 3 :
                           Len2(SideFrom(s, i, i + 1)) = Len2(SideFrom(s, 0, 1))

\* a square whose corner 0 has been dragged out of place
C10_Witness ==
    /\ selectedShape # 0
    /\ CornerDragged(heap[selectedShape])
    /\ heap[selectedShape].subKind = "square"
    /\ draggingPointIndex = 0
    /\ heap[selectedShape].points[0] = Point(Px(380), Px(110))

\* the cross product of two vectors
cross(v, w) == v.x * w.y - v.y * w.x

\* has vertex 2 or 3 of the selected trapezoid just been dragged, its edge
\* 3-2 being of non-zero length afterwards (a step predicate)
BottomDragged ==
    /\ lastOp' = Op("mouseMove", "drag", "")
    /\ selectedShape # 0
    /\ heap[selectedShape].type = "quadrilateral"
    /\ heap[selectedShape].subKind = "trapezoid"
    /\ draggingPointIndex >= 2
    /\ heap'[selectedShape].points[2] # heap'[selectedShape].points[3]

ZeroLengthEdit(s, pts, idx) ==
    CASE s.type = "triangle" /\ s.subKind = "right" -> idx = 0 /\ pts[0] = pts[1]
      [] s.type = "quadrilateral" /\ s.subKind \in {"square", "rhombus"} ->
           pts[idx] = pts[(idx + 2) % 4]
      [] s.type = "quadrilateral" /\ s.subKind = "trapezoid" ->
           idx >= 2 /\ pts[2] = pts[3]
      [] s.type = "quadrilateral" /\ s.subKind = "kite" ->
           IF idx \in {0, 2} THEN pts[idx] = pts[1] \/ pts[idx] = pts[3]
           ELSE pts[0] = pts[2]
      [] OTHER -> FALSE

\* C12: a drag never makes a coordinate NaN, and a drag whose reprojection
\* needs a zero length leaves every other vertex where it was
C12_DegenerateEditRejected ==
    [][(lastOp' = Op("mouseMove", "drag", "") /\ selectedShape # 0) =>
         LET s == heap[selectedShape]
             t == heap'[selectedShape]
             idx == draggingPointIndex
             raw == [s.points EXCEPT ![idx] = t.points[idx]]
         IN  /\ ~HasNaN(t)
             /\ ZeroLengthEdit(s, raw, idx) =>
                    \A j \in DOMAIN s.points : j # idx => t.points[j] = s.points[j]]_vars

\* ------------------------------------------------- endpoints of the lines
\* the line the last query was about
QueriedLine == auxiliaryLines[queried.line]

C14_MedianToOppositeMidpoint ==
    lastOp.op = "getEndpoints" /\ QueriedLine.type = "median" =>
        LET pts == heap[QueriedLine.shape].points
            n == NumPoints(heap[QueriedLine.shape])
            i == QueriedLine.params.vertexIndex
            a == pts[(i + 1) % n]
            b == pts[(i + 2) % n]
            r == queried.result
        IN  n >= 3 /\ i < n =>
              /\ ~r.isNull
              /\ r.start = pts[i]
              /\ Abs(2 * r.end.x - (a.x + b.x)) <= 1
              /\ Abs(2 * r.end.y - (a.y + b.y)) <= 1
              /\ (pts = SmallTriangle(1).points /\ i = 2
                    => r.end = Point(Px(2), Px(0)))

\* the median from C of the triangle A(0,0), B(4,0), C(0,3) has been asked
\* for, and the median of a shape that has been edited
C14_Witness ==
    /\ lastOp.op = "getEndpoints"
    /\ QueriedLine.type = "median"
    /\ \/ /\ heap[1].points = SmallTriangle(1).points
          /\ QueriedLine.params.vertexIndex = 2
          /\ queried.result.end = Point(Px(2), Px(0))
       \/ /\ edits >= 1
          /\ QueriedLine.params.vertexIndex = 1
          /\ NumPoints(heap[1]) = 4

\* the points a derivation takes its direction from coincide
DirectionIsZero(h, line) ==
    LET pts == h[line.shape].points
        n == NumPoints(h[line.shape])
        p == line.params
        ZeroEdge(i) == pts[i] = pts[(i + 1) % n]
    IN  CASE line.type = "altitude" ->
               pts[(p.vertexIndex + 1) % n] = pts[(p.vertexIndex + 2) % n]
          [] line.type = "angle-bisector" ->
               \/ pts[p.vertexIndex] = pts[(p.vertexIndex + 1) % n]
               \/ pts[p.vertexIndex] = pts[(p.vertexIndex + n - 1) % n]
          [] line.type = "perpendicular" -> ZeroEdge(p.perpendicularToEdgeIndex)
          [] line.type = "parallel" -> ZeroEdge(p.parallelToEdgeIndex)
          [] line.type \in {"perpendicular-bisector", "extension"} -> ZeroEdge(p.edgeIndex)
          [] OTHER -> FALSE

\* C15: a construction that needs the direction of an edge, or of a vector
\* from a vertex to its neighbour, returns null when the points that give
\* the direction coincide
C15_NullOnZeroDirection ==
    lastOp.op = "getEndpoints" /\ DirectionIsZero(heap, QueriedLine)
        => queried.result.isNull

\* ------------------------------------------ animation, auto-save, moving
\* C16: while an animation plays, no pointer event changes a vertex of the
\* animated shape
C16_NoDragWhilePlaying ==
    [][/\ animation.isPlaying
       /\ lastOp'.op \in {"mouseDown", "mouseMove"}
       /\ animation.shape \in DOMAIN heap
       => heap'[animation.shape].points = heap[animation.shape].points]_vars

\* the vertices of the shapes, or the auxiliary lines, change in the step
StateChanges ==
    \/ auxiliaryLines' # auxiliaryLines
    \/ DOMAIN heap' # DOMAIN heap
    \/ \E k \in DOMAIN heap \cap DOMAIN heap' : heap'[k].points # heap[k].points

\* C17: after a user operation that changes vertex positions or the set of
\* auxiliary lines (drag, rotation, zoom, move, line creation, undo,
\* clear) an auto-save is pending
C17_ChangeSchedulesSave ==
    [][/\ lastOp'.op \in {"mouseMove", "zoomShape", "rotateShape", "handleClick",
                          "removeLastAuxiliaryLine"}
       /\ StateChanges
       => autoSaveTimer']_vars

\* C18: a timer scheduled before clearAllData writes nothing back: the
\* step that follows a confirmed clear leaves the saved state absent
C18_NoSaveAfterClear ==
    [][lastOp.op = "clearAllData" => ~storage'.present]_vars

\* C19: with the move tool dragging the current shape, a mousemove
\* displaces every vertex by the pointer delta
C19_MoveIsRigid ==
    [][/\ activeTool = "move"
       /\ isMovingShape
       /\ currentShape # 0
       /\ lastMousePos # NoPos
       /\ lastOp'.op = "mouseMove"
       => IF HasNaN(heap'[currentShape]) THEN FALSE
          ELSE \A i \in DOMAIN heap[currentShape].points :
                 heap'[currentShape].points[i] =
                   Point(heap[currentShape].points[i].x + lastMousePos'.x - lastMousePos.x,
                         heap[currentShape].points[i].y + lastMousePos'.y - lastMousePos.y)]_vars

\* ------------------------------------------------- equilateral triangle
\* an equilateral triangle whose vertex has just been dragged to a place at
\* least 20 pixels from the middle of the opposite side
EquilateralDragged(s) ==
    /\ lastOp = Op("mouseMove", "drag", "")
    /\ s.type = "triangle"
    /\ s.subKind = "equilateral"
    /\ LET idx == draggingPointIndex
       IN  Len2(fromPoints(s.points[idx],
                           midpoint(s.points[(idx + 1) % 3], s.points[(idx + 2) % 3])))
             >= Px(20) * Px(20)

\* C20: after a vertex of an equilateral triangle is dragged to a place at
\* least 20 pixels from the middle of the opposite side, the three sides
\* are equally long, to half a pixel of rounding
C20_EquilateralAfterDrag ==
    selectedShape # 0 =>
        LET s == heap[selectedShape]
        IN  EquilateralDragged(s)
              => \A i \in 0 .. 2 :
                   Abs(length(SideFrom(s, i, i + 1)) - length(SideFrom(s, 0, 1))) <= 4

\* vertex 0 of the default equilateral triangle has been dragged to
\* (400, 200) and the two other vertices have followed
C20_Witness ==
    /\ selectedShape # 0
    /\ EquilateralDragged(heap[selectedShape])
    /\ draggingPointIndex = 0
    /\ edits = 1
    /\ Abs(heap[selectedShape].points[0].x - Px(400)) <= 1
    /\ Abs(heap[selectedShape].points[0].y - Px(200)) <= 1
    /\ heap[selectedShape].points[1] # centerShape(createShape2D("triangle-equilateral", 1)).points[1]

\* ------------------------------------------- two-element selections
\* what findElementAt returns on the loaded triangle: vertex 0 or 1, edge 0
\* or 1, or null
PickElements ==
    {NoElement} \cup
    {[type |-> t, index |-> i, shape |-> shapes[k]] :
        t \in {"vertex", "edge"}, i \in {0, 1}, k \in DOMAIN shapes}

\* the page after loadShape('triangle-any'), no auxiliary tool chosen yet
InitPick ==
    /\ heap = (1 :> [centerShape(createShape2D("triangle-any", 1)) EXCEPT !.selected = TRUE])
    /\ shapeIdCounter = 1
    /\ shapes = <<1>>
    /\ selectedShape = 1
    /\ currentShape = 1
    /\ draggingPointIndex = 0 - 1
    /\ isRotating = FALSE
    /\ interactionEnabled = TRUE
    /\ showOptions = DefaultShowOptions
    /\ activeTool = ""
    /\ measure = NewMeasureTool
    /\ isActive = FALSE
    /\ currentMode = ""
    /\ selectedElements = <<>>
    /\ auxiliaryLines = <<>>
    /\ lastOp = Op("loadShape", "", "")
    /\ restored = NoShape
    /\ queried = NoQuery
    /\ isMovingShape = FALSE
    /\ lastMousePos = NoPos
    /\ animation = NoAnimation
    /\ autoSaveTimer = TRUE
    /\ storage = NoSave
    /\ edits = 0

\* the manager collecting a vertex and an edge, in either order
NextPick ==
    \/ \E mode \in {"parallel", "perpendicular"} : Activate(mode)
    \/ Deactivate
    \/ \E element \in PickElements : HandleClick(element)
    \/ RemoveLastAuxiliaryLine

SpecPick == InitPick /\ [][NextPick]_vars

\* the line the claim expects from a vertex and an edge of one shape
MixedLine(mode, v, e) ==
    IF mode = "parallel"
    THEN AuxiliaryLine(mode, v.shape,
             [throughVertexIndex |-> v.index, parallelToEdgeIndex |-> e.index])
    ELSE AuxiliaryLine(mode, v.shape,
             [throughVertexIndex |-> v.index, perpendicularToEdgeIndex |-> e.index])

\* the manager collects for a vertex-and-edge kind
Collecting == isActive /\ currentMode \in {"parallel", "perpendicular"}

\* C21: in parallel and perpendicular mode a first click on a vertex or an
\* edge is taken into the empty accumulator, and a second click on an
\* element of the other type of the same shape emits exactly one line of
\* the mode, bound to that shape, through the vertex and along (across) the
\* edge, whichever was clicked first, and empties the accumulator
C21_EitherOrderEmitsLine ==
    [][\A el \in PickElements :
          (Collecting /\ el.type # "" /\ HandleClick(el)) =>
             /\ selectedElements = <<>> =>
                   (selectedElements' = <<el>> /\ lastOp'.ret = "null"
                      /\ auxiliaryLines' = auxiliaryLines)
             /\ (/\ Len(selectedElements) = 1
                 /\ selectedElements[1].type # el.type
                 /\ selectedElements[1].shape = el.shape) =>
                   LET v == IF el.type = "vertex" THEN el ELSE selectedElements[1]
                       e == IF el.type = "edge" THEN el ELSE selectedElements[1]
                   IN  /\ lastOp'.ret = "line"
                       /\ selectedElements' = <<>>
                       /\ auxiliaryLines' =
                            Append(auxiliaryLines, MixedLine(currentMode, v, e))]_vars

\* edge 1 and then vertex 0 were clicked in perpendicular mode: the line
\* through vertex 0 across edge 1 is there and the accumulator is empty
C21_Witness ==
    /\ lastOp = Op("handleClick", "", "line")
    /\ Collecting
    /\ selectedElements = <<>>
    /\ auxiliaryLines = <<AuxiliaryLine("perpendicular", 1,
                            [throughVertexIndex |-> 0, perpendicularToEdgeIndex |-> 1])>>

\* C23: in parallel and perpendicular mode, with one element in the
\* accumulator, a click on an element of the same type is rejected:
\* handleClick returns null and the accumulator keeps only the first
C23_SameTypeRejected ==
    [][\A el \in PickElements :
          (/\ Collecting
           /\ Len(selectedElements) = 1
           /\ selectedElements[1].type = el.type
           /\ HandleClick(el))
             => (lastOp'.ret = "null" /\ selectedElements' = selectedElements)]_vars

\* ------------------------------------------------------- rectangle drags
\* C22: when a vertex of a rectangle is dragged, the two adjacent vertices
\* end on the perpendicular through the centre (the middle of the dragged
\* and the opposite vertex), each as far from the centre as it was before
\* the solver ran, to a pixel of rounding
C22_AdjacentKeepOwnRadius ==
    [][(/\ lastOp'.op = "mouseMove" /\ lastOp'.arg = "drag"
        /\ selectedShape # 0
        /\ heap[selectedShape].type = "quadrilateral"
        /\ heap[selectedShape].subKind = "rectangle") =>
          LET before == heap[selectedShape].points
              after == heap'[selectedShape].points
              idx == draggingPointIndex
              opposite == (idx + 2) % 4
              center == midpoint(after[idx], before[opposite])
              d == fromPoints(center, after[idx])
          IN  \A adj \in {(idx + 1) % 4, (idx + 3) % 4} :
                /\ Abs(dot(fromPoints(center, after[adj]), d)) <= Scale * Scale
                /\ Abs(length(fromPoints(center, after[adj]))
                         - length(fromPoints(center, before[adj]))) <= Scale]_vars

\* ------------------------------------------------------------ kite drags
\* C26: after an axis vertex (0 or 2) of a kite is dragged, both pairs of
\* adjacent sides are equal, |P0P1| = |P0P3| and |P2P1| = |P2P3|, to a
\* pixel of rounding
C26_KiteBothPairsEqual ==
    (/\ lastOp = Op("mouseMove", "drag", "")
     /\ selectedShape # 0
     /\ draggingPointIndex \in {0, 2}) =>
        LET s == heap[selectedShape]
        IN  (s.type = "quadrilateral" /\ s.subKind = "kite" /\ ~HasNaN(s)) =>
               /\ Abs(length(SideFrom(s, 0, 1)) - length(SideFrom(s, 0, 3))) <= Scale
               /\ Abs(length(SideFrom(s, 2, 1)) - length(SideFrom(s, 2, 3))) <= Scale

\* ------------------------------------------------- the dragged vertex
\* C30: whatever the sub-kind and the dragged index, the solver leaves the
\* dragged vertex where the pointer (kept 20 pixels inside the canvas) put
\* it; only other vertices are repositioned
C30_DraggedVertexStays ==
    [][\A pos \in DragPlaces :
          MouseMoveDrag(pos) =>
             heap'[selectedShape].points[draggingPointIndex] = ClampToCanvas(pos)]_vars

\* vertex 1 of the regular pentagon has been dragged to (380, 110): it is
\* there, and vertex 0 has been turned about the centroid to follow it
C30_Witness ==
    /\ lastOp = Op("mouseMove", "drag", "")
    /\ selectedShape # 0
    /\ heap[selectedShape].type = "polygon"
    /\ heap[selectedShape].isRegular
    /\ heap[selectedShape].sides = 5
    /\ draggingPointIndex = 1
    /\ edits = 1
    /\ heap[selectedShape].points[1] = Point(Px(380), Px(110))
    /\ heap[selectedShape].points[0] # centerShape(createShape2D("pentagon", 1)).points[0]

\* ------------------------------------------------------ the toolbar tools
\* the clicks a measure tool takes before the model stops clicking
MaxClicks == 4

\* where the canvas is clicked while a measure tool is on
ClickPlaces ==
    {Point(Px(100), Px(100)), Point(Px(200), Px(100)), Point(Px(200), Px(200))}

\* the toolbar buttons pressed
ToolButtons == {"measure-distance", "measure-angle", "move", "aux-median", "aux-parallel"}

IsMeasureTool(tool) == tool \in {"measure-distance", "measure-angle"}

IsAuxTool(tool) ==
    tool \in {"aux-connecting", "aux-median", "aux-altitude", "aux-perp-bisector",
              "aux-angle-bisector", "aux-parallel", "aux-perpendicular", "aux-midline",
              "aux-extension"}

\* typeMap of _activateAuxiliaryTool
typeMap(tool) ==
    CASE tool = "aux-connecting" -> "connecting"
      [] tool = "aux-median" -> "median"
      [] tool = "aux-altitude" -> "altitude"
      [] tool = "aux-perp-bisector" -> "perpendicular-bisector"
      [] tool = "aux-angle-bisector" -> "angle-bisector"
      [] tool = "aux-parallel" -> "parallel"
      [] tool = "aux-perpendicular" -> "perpendicular"
      [] tool = "aux-midline" -> "midline"
      [] tool = "aux-extension" -> "extension"
      [] OTHER -> ""

\* Vector.angleTo in degrees, for directions that are multiples of 45
\* degrees apart; a zero vector gives 0
angleTo(v1, v2) ==
    LET d == dot(v1, v2)
        c == v1.x * v2.y - v1.y * v2.x
    IN  IF Len2(v1) = 0 \/ Len2(v2) = 0 THEN 0
        ELSE CASE c = 0 /\ d > 0 -> 0
               [] c = 0 /\ d < 0 -> 180
               [] d = 0 -> 90
               [] Abs(c) = d -> 45
               [] Abs(c) = 0 - d -> 135

\* MeasureTool.activate(type)
MeasureTool_activate(type) ==
    [isActive |-> TRUE, measureType |-> type, points |-> <<>>, result |-> NoValue]

\* MeasureTool.deactivate()
MeasureTool_deactivate(mt) ==
    [mt EXCEPT !.isActive = FALSE, !.points = <<>>, !.result = NoValue]

\* MeasureTool.addPoint(point): the tool afterwards, and whether a
\* 'measure' event was emitted
addPoint(mt, point) ==
    IF ~mt.isActive THEN [tool |-> mt, emitted |-> FALSE]
    ELSE LET pts == Append(mt.points, point)
         IN  IF mt.measureType = "distance" /\ Len(pts) = 2
             THEN [tool |-> [mt EXCEPT !.points = pts,
                                       !.result = distanceTo(pts[1], pts[2])],
                   emitted |-> TRUE]
             ELSE IF mt.measureType = "angle" /\ Len(pts) = 3
             THEN [tool |-> [mt EXCEPT !.points = pts,
                                       !.result = angleTo(fromPoints(pts[2], pts[1]),
                                                          fromPoints(pts[2], pts[3]))],
                   emitted |-> TRUE]
             ELSE [tool |-> [mt EXCEPT !.points = pts], emitted |-> FALSE]

\* the fields of the application that the tool handlers write
AppState ==
    [activeTool |-> activeTool, measure |-> measure, manager |-> ManagerState,
     isMovingShape |-> isMovingShape, interactionEnabled |-> interactionEnabled]

\* GeometryApp.activateTool(toolName, btn)
activateTool(a, toolName) ==
    LET b == IF a.activeTool # "" /\ a.activeTool # toolName
             THEN IF IsMeasureTool(a.activeTool)
                  THEN [a EXCEPT !.measure = MeasureTool_deactivate(@)]
                  ELSE IF a.activeTool = "move"
                  THEN [a EXCEPT !.isMovingShape = FALSE]
                  ELSE a
             ELSE a
    IN  [b EXCEPT !.activeTool = toolName,
                  !.interactionEnabled =
                      ~(\/ IsAuxTool(toolName)
                        \/ toolName \in {"draw-point", "draw-line", "draw-polygon"}
                        \/ IsMeasureTool(toolName))]

\* GeometryApp.deactivateTool()
deactivateTool(a) ==
    IF a.activeTool = "" THEN a
    ELSE LET b == IF IsMeasureTool(a.activeTool)
                  THEN [a EXCEPT !.measure = MeasureTool_deactivate(@)]
                  ELSE IF a.activeTool = "move"
                  THEN [a EXCEPT !.isMovingShape = FALSE]
                  ELSE IF IsAuxTool(a.activeTool)
                  THEN [a EXCEPT !.manager = deactivate(@)]
                  ELSE a
         IN  [b EXCEPT !.activeTool = "", !.interactionEnabled = TRUE]

\* GeometryApp._activateAuxiliaryTool(tool, btn)
_activateAuxiliaryTool(a, tool) ==
    LET a1 == IF IsAuxTool(a.activeTool) THEN [a EXCEPT !.manager = deactivate(@)] ELSE a
        a2 == activateTool(a1, tool)
        a3 == [a2 EXCEPT !.manager = activate(@, heap, shapes, typeMap(tool))]
    IN  IF a3.manager.ret = "false" THEN deactivateTool(a3) ELSE a3

\* GeometryApp.handleToolAction(tool, btn) for the toggleable tools
handleToolAction(a, tool) ==
    IF a.activeTool = tool THEN deactivateTool(a)
    ELSE IF IsMeasureTool(tool)
    THEN [activateTool(a, tool) EXCEPT
             !.measure = MeasureTool_activate(IF tool = "measure-distance"
                                              THEN "distance" ELSE "angle")]
    ELSE IF tool = "move" THEN activateTool(a, tool)
    ELSE _activateAuxiliaryTool(a, tool)

SetApp(a) ==
    /\ activeTool' = a.activeTool
    /\ measure' = a.measure
    /\ isMovingShape' = a.isMovingShape
    /\ interactionEnabled' = a.interactionEnabled
    /\ SetManager(a.manager)

\* a click on a toolbar button
HandleToolAction(tool) ==
    /\ SetApp(handleToolAction(AppState, tool))
    /\ lastOp' = Op("handleToolAction", tool, "")
    /\ UNCHANGED <<shapeIdCounter, shapes, selectedShape, draggingPointIndex, isRotating,
                   showOptions, currentShape, probeVars, lastMousePos, animation,
                   saveVars, edits>>

\* the keydown listener on Escape
KeyEscape ==
    /\ SetApp(deactivateTool(AppState))
    /\ lastOp' = Op("keydown", "Escape", "")
    /\ UNCHANGED <<shapeIdCounter, shapes, selectedShape, draggingPointIndex, isRotating,
                   showOptions, currentShape, probeVars, lastMousePos, animation,
                   saveVars, edits>>

\* the canvas click listener: GeometryApp.handleCanvasClick(pos), element
\* being what the manager's findElementAt(pos) finds
HandleCanvasClick(pos, element) ==
    /\ activeTool # ""
    /\ IF IsMeasureTool(activeTool)
       THEN LET r == addPoint(measure, pos)
            IN  /\ Len(measure.points) < MaxClicks
                /\ measure' = r.tool
                /\ lastOp' = Op("handleCanvasClick", activeTool,
                                IF r.emitted THEN "measure" ELSE "")
                /\ UNCHANGED <<heap, managerVars, autoSaveTimer>>
       ELSE IF IsAuxTool(activeTool)
       THEN LET m == handleClick(ManagerState, element)
            IN  /\ ValidElement(element)
                /\ Len(m.auxiliaryLines) <= MaxLines
                /\ SetManager(m)
                /\ autoSaveTimer' = IF m.ret = "line" THEN TRUE ELSE autoSaveTimer
                /\ lastOp' = Op("handleCanvasClick", activeTool, m.ret)
                /\ UNCHANGED measure
       ELSE /\ lastOp' = Op("handleCanvasClick", activeTool, "")
            /\ UNCHANGED <<heap, measure, managerVars, autoSaveTimer>>
    /\ UNCHANGED <<shapeIdCounter, engineVars, currentShape, activeTool, probeVars,
                   appVars, storage, edits>>

\* a triangle or a circle on the canvas and no tool chosen
InitTool ==
    /\ InitShape
    /\ \/ heap[1].type = "triangle" /\ heap[1].subKind = "any"
       \/ heap[1].type = "circle" /\ heap[1].subKind = "circle"

\* the toolbar, the Escape key and clicks on the canvas
NextTool ==
    \/ \E tool \in ToolButtons : HandleToolAction(tool)
    \/ KeyEscape
    \/ \E pos \in ClickPlaces, element \in Elements : HandleCanvasClick(pos, element)

SpecTool == InitTool /\ [][NextTool]_vars

\* C24: while a measure tool is on, the point buffer never holds more than
\* 2 points (3 for an angle): it starts over after a measurement, so every
\* pair (triple) of clicks measures again
C24_BufferStartsOver ==
    measure.isActive =>
        Len(measure.points) <= (IF measure.measureType = "distance" THEN 2 ELSE 3)

\* C27: the auxiliary manager is active exactly when the active tool is an
\* aux-* tool, its kind is then the kind mapped from the tool, and with
\* any other tool it is inactive with an empty accumulator
C27_ManagerFollowsTool ==
    /\ isActive <=> IsAuxTool(activeTool)
    /\ isActive => currentMode = typeMap(activeTool)
    /\ ~IsAuxTool(activeTool) => (~isActive /\ selectedElements = <<>>)

\* ------------------------------------------------------ polygons by tag
\* the sidebar's regular polygons and the 'polygon-N' tags loaded into an
\* empty page, their vertices pressed, and the page cleared
NextFactory ==
    \/ \E tag \in PolygonTags \cup {"pentagon", "hexagon"} : LoadShape(tag)
    \/ ClearAllData
    \/ \E k \in DOMAIN shapes, idx \in 0 .. 7 : MouseDownVertex(k, idx)
    \/ MouseUp

SpecFactory == Init /\ [][NextFactory]_vars

\* C25: the polygon createShape2D returns for a tag 'polygon-N' has at
\* least 3 vertices, exactly N of them when N >= 3, and its sides field is
\* its number of vertices
C25_PolygonAtLeastThree ==
    [][\A tag \in PolygonTags :
          LoadShape(tag) =>
             LET s == heap'[selectedShape']
                 n == TagNumber(tag)
             IN  /\ s.type = "polygon"
                 /\ NumPoints(s) >= 3
                 /\ (n # NaN /\ n >= 3) => NumPoints(s) = n
                 /\ s.sides = NumPoints(s)]_vars

\* ---------------------------------------------- the kind and the shapes
\* C28: whenever the manager is active with a kind, a shape of the engine
\* supports that kind, also after the shape on display has been replaced
\* or removed
C28_ActiveKindSupported ==
    (isActive /\ currentMode \in AuxKinds) => hasValidShape(heap, shapes, currentMode)

\* ------------------------------------------------- several shapes, one selection
\* Shape.contains(point) as the subclasses override it
contains(s, pos) ==
    CASE s.type = "point" -> Len2(fromPoints(s.points[0], pos)) <= Px(12) * Px(12)
      [] s.type = "line" ->
           Abs(distanceTo(pos, s.points[0]) + distanceTo(pos, s.points[1])
                 - distanceTo(s.points[0], s.points[1])) < Px(5)
      [] s.type = "circle" ->
           Len2(fromPoints(s.points[0], pos)) <= Len2(fromPoints(s.points[0], s.points[1]))
      [] OTHER -> pointInPolygon(pos, s.points)

\* does the loop of _onMouseDown stop at shape s for a press at pos: on its
\* centre handle, on a vertex or inside
HitBy(s, pos) ==
    \/ Len2(fromPoints(pos, getCenter(s))) <= Px(20) * Px(20)
    \/ ~NoPointAt(s, pos)
    \/ contains(s, pos)

\* no shape before the k-th takes a press at pos
ReachesShape(k, pos) ==
    \A j \in DOMAIN shapes : j < k => ~HitBy(heap[shapes[j]], pos)

\* canvas mousedown at (30, 30) when no shape is there:
\* GeometryEngine._onMouseDown ends with selectShape(null), whose select
\* event clears app.currentShape
MouseDownNowhere ==
    /\ interactionEnabled
    /\ \A k \in DOMAIN shapes : ~HitBy(heap[shapes[k]], Point(Px(30), Px(30)))
    /\ heap' = selectShape(heap, selectedShape, 0)
    /\ selectedShape' = 0
    /\ currentShape' = 0
    /\ AppMouseDown(0, Point(Px(30), Px(30)))
    /\ lastOp' = Op("mouseDown", "nowhere", "")
    /\ UNCHANGED <<shapeIdCounter, shapes, draggingPointIndex, isRotating,
                   interactionEnabled, showOptions, activeTool, measure, managerVars,
                   probeVars, animation, saveVars, edits>>

\* a square loaded, points drawn, and presses on the shapes and beside them
NextSelect ==
    \/ LoadShape("square")
    \/ AddDrawnShape
    \/ \E k \in DOMAIN shapes :
          ReachesShape(k, getCenter(heap[shapes[k]])) /\ MouseDownCenter(k)
    \/ \E k \in DOMAIN shapes, idx \in 0 .. 3 :
          /\ idx \in DOMAIN heap[shapes[k]].points
          /\ ReachesShape(k, heap[shapes[k]].points[idx])
          /\ MouseDownVertex(k, idx)
    \/ \E k \in DOMAIN shapes : \E pos \in InsidePlaces(heap[shapes[k]]) :
          ReachesShape(k, pos) /\ MouseDownInside(k, pos)
    \/ MouseDownNowhere
    \/ MouseUp

SpecSelect == Init /\ [][NextSelect]_vars

\* C29: at most one shape of the engine has selected = true, and if one
\* has, it is engine.selectedShape
C29_OneSelection ==
    \A k \in DOMAIN shapes :
        heap[shapes[k]].selected =>
            /\ selectedShape = shapes[k]
            /\ \A j \in DOMAIN shapes : heap[shapes[j]].selected => j = k
====
